---------------------------- MODULE Spec2Model ----------------------------
(***************************************************************************)
(* Model of the rover relay system: the iBUS frame codec                   *)
(* (parse_ibus_frame), the sender's frame synchroniser (read_ibus_frame),  *)
(* the UDP-to-UART bridge loop (bridge_loop), the shared telemetry state   *)
(* (SharedState) and the relay output arbiter                              *)
(* (GpioController._update_loop).                                          *)
(*                                                                         *)
(* Byte strings are sequences over 0..255; Python's 0-based offset k is    *)
(* element k+1 of the sequence.                                            *)
(***************************************************************************)
EXTENDS Integers, Sequences, FiniteSets, TLC

VARIABLES
    \* ---- codec harness: one byte string put through parse_ibus_frame ----
    cframe,      \* the ControlFrame (14 channel values) the input is built from
    cbuf,        \* the byte string handed to parse_ibus_frame
    cres,        \* what parse_ibus_frame returned for cbuf
    cstage,      \* "frame" -> "buf" -> "decoded"
    cmut,        \* number of modifications applied to cbuf since encode
    cprevalid,   \* whether cbuf was a valid frame before its last modification
    cpos,        \* offset of the last modified byte, -1 for none or a resize
    \* ---- sender side: one call of read_ibus_frame on a serial stream ----
    rstream,     \* the bytes the serial line carries, fixed for the run
    rstart,      \* index in rstream of the last 0x20 of the run before 0x40
    rin,         \* the bytes not yet read
    rpc,         \* "first", "second", "third", "rest", "done"
    rret,        \* the value returned once rpc = "done"
    rearly,      \* a read timed out before the frame at rstart was read through
    \* ---- time ----
    clock,       \* time.monotonic(), in milliseconds
    \* ---- SharedState: relay request flags and resolved level ----
    momentary_active,
    blink_active,
    relay_state,
    \* ---- GpioController._update_loop ----
    gpio_available,  \* GPIO_AVAILABLE: the RPi.GPIO import succeeded
    a_pc,            \* "top", "sample", "resolve", "publish", "sleep"
    blink_state,
    last_blink_time,
    momentary,       \* the loop's copy of momentary_active
    blinking,        \* the loop's copy of blink_active
    target_high,
    pin,             \* level last written to PIN_RELAY_MOMENTARY
    flip_gaps,       \* history: the time from each blink flip to the next
    \* ---- SharedState: bridge telemetry and the log ring ----
    last_rc_time,
    last_rc_sender,
    packets_rx,
    packets_uart_tx,
    uart_rx_lines,
    uart_open,
    logs,
    next_log_id,
    \* ---- bridge_loop ----
    b_pc,            \* "bind", "uart_setup", "select", "forward", "rxlog",
                     \* "uart", "live", "returned"
    uart_dev,        \* the serial handle is open (uart_dev is not None)
    last_rx_time,
    last_no_rx_log_sec,
    uart_line_buf,
    data,            \* the datagram received in this pass, <<>> for none
    sender,          \* its "ip:port"
    uart_written,    \* the byte strings written to the serial port in this pass
    n_event,         \* datagrams and serial chunks delivered, and I/O calls
                     \* inside the loop that raised, so far
    \* ---- GET /api/status ----
    status,          \* <<payload>> in the state a status query has just
                     \* answered in, <<>> otherwise
    \* ---- GET /api/logs ----
    qres,            \* <<[since, logs]>> in the state a log query has just
                     \* answered in, <<>> otherwise
    \* ---- the threads on SharedState.lock ----
    lock,            \* the thread holding SharedState.lock, "free" for none
    t_pc,            \* where each thread stands
    \* ---- main ----
    shutdown,        \* main has left app.run and run gpio.cleanup()
    \* ---- the servo outputs ----
    duty1,           \* duty cycle of the PWM of servo 1, in 1/36 percent;
    duty2,           \* of servo 2; 0 when there is no PWM output
    servo_req,       \* <<[id, angle]>> in the state a servo request has
                     \* just been answered in, <<>> otherwise
    \* ---- the inbound serial stream ----
    sstream,         \* the bytes the controller sends over a run
    sfed,            \* how many of them the bridge has read so far
    \* ---- pc_rc_sender.main: the send loop ----
    snd_hz,          \* args.hz, in thousandths of a hertz
    snd_next_send,   \* next_send, in milliseconds
    snd_sent,        \* history: [data, at, read] of each datagram sent
    snd_reads,       \* calls of read_ibus_frame that have returned
    snd_waits,       \* times the loop has been kept waiting
    snd_opens,       \* times the serial port has been opened
    snd_last,        \* how the last pass ended: "none", "noframe",
                     \* "invalid", "early", "sent", "error"
    \* ---- the dashboard's log console: refreshLogs ----
    lastId,          \* the cursor of the page
    inflight,        \* the requests sent and not yet processed by the page
    seen_max,        \* history: the largest id the page has been handed
    poll_last,       \* <<what the page was handed by the response it
                     \* processed last>>, <<>> before the first one
    n_polls,         \* requests sent so far
    n_bursts,        \* times entries were appended so far
    \* ---- ByteStreamFrameExtractor ----
    xstream,         \* the byte stream the source produces: [garbage, payloads]
    xcuts,           \* the stream offsets at which the chunks fed so far end
    xbuf,            \* the read buffer
    xlatest          \* <<frame>> for the newest complete frame, <<>> for unset

codecVars == <<cframe, cbuf, cres, cstage, cmut, cprevalid, cpos>>

readerVars == <<rstream, rstart, rin, rpc, rret, rearly>>

relayVars == <<momentary_active, blink_active, relay_state>>

arbiterVars == <<gpio_available, a_pc, blink_state, last_blink_time, momentary,
                 blinking, target_high, pin, flip_gaps>>

telemetryVars == <<last_rc_time, last_rc_sender, packets_rx, packets_uart_tx,
                   uart_rx_lines, uart_open, logs, next_log_id>>

bridgeVars == <<b_pc, uart_dev, last_rx_time, last_no_rx_log_sec, uart_line_buf,
                data, sender, uart_written, n_event>>

queryVars == <<qres>>

threadVars == <<lock, t_pc>>

mainVars == <<shutdown>>

serialVars == <<sstream, sfed>>

pollVars == <<lastId, inflight, seen_max, poll_last, n_polls, n_bursts>>

senderVars == <<snd_hz, snd_next_send, snd_sent, snd_reads, snd_waits,
                snd_opens, snd_last>>

servoVars == <<duty1, duty2, servo_req>>

extractorVars == <<xstream, xcuts, xbuf, xlatest>>

\* what the actions of one component leave alone
notCodec == <<readerVars, clock, relayVars, arbiterVars, telemetryVars,
              bridgeVars, status, queryVars, threadVars, extractorVars,
    mainVars, pollVars, senderVars, serialVars, servoVars>>

notReader == <<codecVars, clock, relayVars, arbiterVars, telemetryVars,
               bridgeVars, status, queryVars, threadVars, extractorVars,
    mainVars, pollVars, senderVars, serialVars, servoVars>>

notArbiter == <<codecVars, readerVars, telemetryVars, bridgeVars, status,
                queryVars, threadVars, extractorVars,
    mainVars, pollVars, senderVars, serialVars, servoVars>>

notBridge == <<codecVars, readerVars, relayVars, arbiterVars, queryVars,
               threadVars, extractorVars,
    mainVars, pollVars, senderVars, serialVars, servoVars>>

notRing == <<codecVars, readerVars, clock, relayVars, arbiterVars, bridgeVars,
             status, threadVars, extractorVars,
    mainVars, pollVars, senderVars, serialVars, servoVars>>

notExtractor == <<codecVars, readerVars, clock, relayVars, arbiterVars,
                  telemetryVars, bridgeVars, status, queryVars, threadVars,
    mainVars, pollVars, senderVars, serialVars, servoVars>>

notSender == <<codecVars, relayVars, arbiterVars, telemetryVars, bridgeVars,
               status, queryVars, threadVars, extractorVars, mainVars, pollVars,
               serialVars, servoVars>>

notPoll == <<codecVars, readerVars, clock, relayVars, arbiterVars, bridgeVars,
             status, threadVars, extractorVars, mainVars,
             senderVars, serialVars, servoVars>>

vars == <<cframe, cbuf, cres, cstage, cmut, cprevalid, cpos,
          rstream, rstart, rin, rpc, rret, rearly,
          clock,
          momentary_active, blink_active, relay_state,
          gpio_available, a_pc, blink_state, last_blink_time, momentary,
          blinking, target_high, pin, flip_gaps,
          last_rc_time, last_rc_sender, packets_rx, packets_uart_tx,
          uart_rx_lines, uart_open, logs, next_log_id,
          b_pc, uart_dev, last_rx_time, last_no_rx_log_sec, uart_line_buf,
          data, sender, uart_written, n_event,
          status, qres, lock, t_pc,
          shutdown, duty1, duty2, servo_req,
          sstream, sfed,
          snd_hz, snd_next_send, snd_sent, snd_reads, snd_waits, snd_opens,
          snd_last,
          lastId, inflight, seen_max, poll_last, n_polls, n_bursts,
          xstream, xcuts, xbuf, xlatest>>

---------------------------------------------------------------------------
(* Protocol constants                                                      *)

IBUS_FRAME_LEN == 32

IBUS_HEADER == <<32, 64>>

\* Python's None
None == <<>>

\* the arbiter's blink interval, 0.5 s, in milliseconds
BLINK_INTERVAL_MS == 500

\* the arbiter's time.sleep(0.05), in milliseconds
UPDATE_SLEEP_MS == 50

\* deque(maxlen=1000): capacity of the log ring
LOG_MAXLEN == 1000

\* the bridge's signal-lost threshold, 0.5 s, in milliseconds
FAILSAFE_MS == 500

\* width of a liveness log bucket, in seconds
LOG_BUCKET_S == 5

\* the initial last_no_rx_log_sec
NO_BUCKET == -10

\* link_alive is last_age < 1.0 s, in milliseconds
LINK_ALIVE_MS == 1000

\* last_age when no frame was received, 9999.0 s, in milliseconds
NEVER_AGE_MS == 9999000

\* the line buffer is cleared when it grows past this many bytes
UART_LINE_MAX == 256

\* a "Relayed 50 iBUS frames" entry every this many datagrams
RELAY_LOG_EVERY == 50

\* the ceiling of the extractor's read buffer, 5 MB
BUFFER_CEILING == 5242880

---------------------------------------------------------------------------
(* Bounds of the model                                                     *)

\* modifications applied to one encoded frame before it is decoded
MaxMut == 1

\* longest run of 0x20 bytes placed before a 0x40 in a serial stream
MaxRun == 4

\* how much longer than asked a time.sleep may last, in milliseconds
SleepOverrunMs == 10

\* the arbiter is followed for this long after it starts, in milliseconds
ArbiterHorizonMs == 1300

\* time.monotonic() when bridge_loop starts, in milliseconds
BridgeStartClock == 3500

\* the bridge is followed for this long after it starts, in milliseconds
BridgeHorizonMs == 1800

\* the clock advances in steps of this many milliseconds
TimeStepMs == 600

\* the serial stream of a run is made of at most this many pieces
MaxPieces == 2

\* datagrams and serial chunks delivered, and I/O calls inside the loop that
\* raise, over a run
MaxEvents == 2

\* appends past the capacity of the log ring over a run
MaxEvicted == 3

\* the monitor starts a round of logging while next_log_id is at most this
MaxThreadLogs == 2

\* datagrams the bridge thread receives over a run
MaxThreadPackets == 1

\* frames in a stream fed to the extractor
MaxFrames == 2

\* chunks a stream is fed in
MaxFeedChunks == 2

\* times entries are appended in a run of the log console
MaxBursts == 3

\* requests the log console sends in a run
MaxPolls == 3

\* requests of the log console under way at once
MaxInFlight == 2

\* pieces of a stream on the sender's serial line
MaxSenderPieces == 2

\* calls of read_ibus_frame in a run of the sender
MaxReads == 3

\* times the sender is kept waiting in a run
MaxWaits == 2

---------------------------------------------------------------------------
(* Pure helpers                                                            *)

RECURSIVE SumBytes(_)
\* sum(frame[:30]) for the slice handed in
SumBytes(s) == IF s = <<>> THEN 0 ELSE Head(s) + SumBytes(Tail(s))

\* struct.unpack_from("<H", frame, off)[0]
UnpackLE16(frame, off) == frame[off + 1] + 256 * frame[off + 2]

\* frame[:n], which is shorter than n on a short input
Prefix(frame, n) == SubSeq(frame, 1, IF Len(frame) < n THEN Len(frame) ELSE n)

\* x & 0xFFFF for a non-negative x
Mask16(x) == x % 65536

\* parse_ibus_frame with the header comparison left out
parse_no_header_check(frame) ==
    IF Len(frame) # IBUS_FRAME_LEN
    THEN None
    ELSE LET expected == UnpackLE16(frame, 30)
             checksum == Mask16(65535 - Mask16(SumBytes(Prefix(frame, 30))))
         IN  IF checksum # expected
             THEN None
             ELSE [i \in 1..14 |-> UnpackLE16(frame, 2 + 2 * (i - 1))]

\* parse_ibus_frame with the checksum comparison left out
parse_no_checksum_check(frame) ==
    IF Len(frame) # IBUS_FRAME_LEN \/ Prefix(frame, 2) # IBUS_HEADER
    THEN None
    ELSE [i \in 1..14 |-> UnpackLE16(frame, 2 + 2 * (i - 1))]

\* parse_ibus_frame reading the channels from offset 2*i, over the header
parse_channels_from_zero(frame) ==
    IF Len(frame) # IBUS_FRAME_LEN \/ Prefix(frame, 2) # IBUS_HEADER
    THEN None
    ELSE LET expected == UnpackLE16(frame, 30)
             checksum == Mask16(65535 - Mask16(SumBytes(Prefix(frame, 30))))
         IN  IF checksum # expected
             THEN None
             ELSE [i \in 1..14 |-> UnpackLE16(frame, 2 * (i - 1))]

parse_ibus_frame(frame) ==
    IF Len(frame) # IBUS_FRAME_LEN \/ Prefix(frame, 2) # IBUS_HEADER
    THEN None
    ELSE LET expected == UnpackLE16(frame, 30)
             checksum == Mask16(65535 - Mask16(SumBytes(Prefix(frame, 30))))
         IN  IF checksum # expected
             THEN None
             ELSE [i \in 1..14 |-> UnpackLE16(frame, 2 + 2 * (i - 1))]

\* struct.pack("<H", v): the two bytes of an unsigned 16-bit value
PackLE16(v) == <<v % 256, v \div 256>>

RECURSIVE PackChannels(_)
PackChannels(chs) ==
    IF chs = <<>> THEN <<>> ELSE PackLE16(Head(chs)) \o PackChannels(Tail(chs))

\* FrameCodec.encode: header, 14 channels little-endian, checksum little-endian
encode(f) ==
    LET body == IBUS_HEADER \o PackChannels(f)
    IN  body \o PackLE16((65535 - SumBytes(body)) % 65536)

---------------------------------------------------------------------------
(* Codec harness                                                           *)

\* channel values the inputs are drawn from: both ends of the 16-bit range,
\* the conventional range, and values whose bytes look like the header
ChanVals == {0, 1000, 1500, 2000, 8224, 16416, 65535}

\* a ControlFrame: 14 channel values
Uniform(v) == [i \in 1..14 |-> v]

Ramp == [i \in 1..14 |-> 1000 + 70 * i]

ControlFrames ==
    {Uniform(v) : v \in ChanVals}
        \cup {Ramp}
        \cup {[Uniform(1500) EXCEPT ![k] = v] : k \in {1, 14}, v \in {0, 65535}}
        \cup {[Uniform(1500) EXCEPT ![1] = 0, ![14] = 65535]}

\* byte values a modification may write
ByteVals == {0, 32, 64, 255}

CodecIdle ==
    /\ cbuf = <<>>
    /\ cres = None
    /\ cstage = "frame"
    /\ cmut = 0
    /\ cprevalid = FALSE
    /\ cpos = -1

CodecInit ==
    /\ cframe \in ControlFrames
    /\ CodecIdle

\* the harness at rest, for the specifications of the other components
CodecUnused ==
    /\ cframe = Uniform(1500)
    /\ CodecIdle

CodecEncode ==
    /\ UNCHANGED notCodec
    /\ cstage = "frame"
    /\ cbuf' = encode(cframe)
    /\ cstage' = "buf"
    /\ UNCHANGED <<cframe, cres, cmut, cprevalid, cpos>>

\* replace one byte of the input by a different value
CodecMutate ==
    /\ UNCHANGED notCodec
    /\ cstage = "buf"
    /\ cmut < MaxMut
    /\ \E i \in 0..(Len(cbuf) - 1), v \in ByteVals :
          /\ v # cbuf[i + 1]
          /\ cbuf' = [cbuf EXCEPT ![i + 1] = v]
          /\ cpos' = i
    /\ cprevalid' = (parse_ibus_frame(cbuf) # None)
    /\ cmut' = cmut + 1
    /\ UNCHANGED <<cframe, cres, cstage>>

\* change the length of the input: drop the last byte, drop the first byte,
\* or append a byte
CodecResize ==
    /\ UNCHANGED notCodec
    /\ cstage = "buf"
    /\ cmut < MaxMut
    /\ \/ /\ Len(cbuf) > 0
          /\ cbuf' = SubSeq(cbuf, 1, Len(cbuf) - 1)
       \/ /\ Len(cbuf) > 0
          /\ cbuf' = Tail(cbuf)
       \/ \E v \in ByteVals : cbuf' = Append(cbuf, v)
    /\ cprevalid' = (parse_ibus_frame(cbuf) # None)
    /\ cpos' = -1
    /\ cmut' = cmut + 1
    /\ UNCHANGED <<cframe, cres, cstage>>

\* recompute the checksum bytes of a 32-byte input from its first 30 bytes,
\* as a sender that frames whatever bytes it holds would
CodecReseal ==
    /\ UNCHANGED notCodec
    /\ cstage = "buf"
    /\ Len(cbuf) = IBUS_FRAME_LEN
    /\ cbuf' = SubSeq(cbuf, 1, 30)
                  \o PackLE16((65535 - SumBytes(SubSeq(cbuf, 1, 30))) % 65536)
    /\ cbuf' # cbuf
    /\ cprevalid' = FALSE
    /\ cpos' = -1
    /\ UNCHANGED <<cframe, cres, cstage, cmut>>

CodecDecode ==
    /\ UNCHANGED notCodec
    /\ cstage \in {"frame", "buf"}
    /\ cres' = parse_ibus_frame(cbuf)
    /\ cstage' = "decoded"
    /\ UNCHANGED <<cframe, cbuf, cmut, cprevalid, cpos>>

---------------------------------------------------------------------------
(* Sender side: read_ibus_frame on a serial stream                         *)

RunOf(k) == [i \in 1..k |-> 32]

\* bytes before the run: none, noise, and noise holding 0x20 bytes that are
\* followed by something else than 0x40
Garbage == {<<>>, <<65>>, <<64>>, <<32, 65>>, <<32, 32, 65>>, <<7, 32, 0, 64>>}

\* the 30 bytes after the header: a ramp, and a payload that itself holds
\* 0x20 and 0x40 bytes
Payloads ==
    {[i \in 1..30 |-> i + 100],
     [i \in 1..30 |-> IF i = 3 THEN 32 ELSE IF i = 4 THEN 64 ELSE 200],
     [i \in 1..30 |-> 32]}

\* what follows the frame on the line: nothing, or the start of the next frame
Tails == {<<>>, <<32, 64>> \o [i \in 1..30 |-> 150], <<32, 64, 1, 2, 3>>}

ReaderIdle ==
    /\ rstream = <<>>
    /\ rstart = 0
    /\ rin = <<>>
    /\ rpc = "done"
    /\ rret = None
    /\ rearly = FALSE

ReaderInit ==
    /\ \E g \in Garbage, k \in 1..MaxRun, p \in Payloads, t \in Tails :
          /\ rstream = g \o RunOf(k) \o <<64>> \o p \o t
          /\ rstart = Len(g) + k
    /\ rin = rstream
    /\ rpc = "first"
    /\ rret = None
    /\ rearly = FALSE

\* number of bytes of rstream consumed so far
Consumed == Len(rstream) - Len(rin)

\* a timeout now falls before the frame at rstart has been read through
TimeoutIsEarly == Consumed < rstart + 31

\* ser.read(1) returned b"": return None
ReadTimedOut ==
    /\ rret' = None
    /\ rpc' = "done"
    /\ rearly' = (rearly \/ TimeoutIsEarly)
    /\ UNCHANGED <<rstream, rstart, rin>>

\* ser.read(1) returned one byte, and the scan goes on at `next`
ReadOne(next) ==
    /\ rin # <<>>
    /\ rin' = Tail(rin)
    /\ rpc' = next
    /\ UNCHANGED <<rstream, rstart, rret, rearly>>

\* first = ser.read(1)
ReaderFirst ==
    /\ UNCHANGED notReader
    /\ rpc = "first"
    /\ \/ ReadTimedOut
       \/ ReadOne(IF Head(rin) # 32 THEN "first" ELSE "second")

\* second = ser.read(1)
ReaderSecond ==
    /\ UNCHANGED notReader
    /\ rpc = "second"
    /\ \/ ReadTimedOut
       \/ ReadOne(IF Head(rin) = 32 THEN "third"
                  ELSE IF Head(rin) # 64 THEN "first" ELSE "rest")

\* third = ser.read(1), after 0x20 0x20
ReaderThird ==
    /\ UNCHANGED notReader
    /\ rpc = "third"
    /\ \/ ReadTimedOut
       \/ ReadOne(IF Head(rin) = 64 THEN "rest" ELSE "first")

\* the read of the rest handing back whatever it got
ReaderRestReturnsShort ==
    /\ UNCHANGED notReader
    /\ rpc = "rest"
    /\ \/ /\ Len(rin) >= IBUS_FRAME_LEN - 2
          /\ rret' = <<32, 64>> \o SubSeq(rin, 1, IBUS_FRAME_LEN - 2)
          /\ rin' = SubSeq(rin, IBUS_FRAME_LEN - 1, Len(rin))
          /\ rearly' = rearly
       \/ \E n \in 0..(IBUS_FRAME_LEN - 3) :
             /\ n <= Len(rin)
             /\ rret' = <<32, 64>> \o SubSeq(rin, 1, n)
             /\ rin' = SubSeq(rin, n + 1, Len(rin))
             /\ rearly' = (rearly \/ TimeoutIsEarly)
    /\ rpc' = "done"
    /\ UNCHANGED <<rstream, rstart>>

\* rest = ser.read(IBUS_FRAME_LEN - 2)
ReaderRest ==
    /\ UNCHANGED notReader
    /\ rpc = "rest"
    /\ \/ /\ Len(rin) >= IBUS_FRAME_LEN - 2
          /\ rret' = <<32, 64>> \o SubSeq(rin, 1, IBUS_FRAME_LEN - 2)
          /\ rin' = SubSeq(rin, IBUS_FRAME_LEN - 1, Len(rin))
          /\ rearly' = rearly
       \/ \E n \in 0..(IBUS_FRAME_LEN - 3) :
             /\ n <= Len(rin)
             /\ rret' = None
             /\ rin' = SubSeq(rin, n + 1, Len(rin))
             /\ rearly' = (rearly \/ TimeoutIsEarly)
    /\ rpc' = "done"
    /\ UNCHANGED <<rstream, rstart>>

---------------------------------------------------------------------------
(* Sender side: parse_ibus_frame and the send loop of pc_rc_sender.main    *)

sender_IBUS_FRAME_LEN == 32

sender_IBUS_HEADER == <<32, 64>>

\* the sender's parse_ibus_frame with the checksum comparison left out
sender_parse_ignores_checksum(frame) ==
    IF Len(frame) # sender_IBUS_FRAME_LEN
    THEN None
    ELSE IF Prefix(frame, 2) # sender_IBUS_HEADER
    THEN None
    ELSE [i \in 1..14 |-> UnpackLE16(frame, 2 + 2 * (i - 1))]

\* parse_ibus_frame of pc_rc_sender.py: length, header and checksum are
\* tested one after the other
sender_parse_ibus_frame(frame) ==
    IF Len(frame) # sender_IBUS_FRAME_LEN
    THEN None
    ELSE IF Prefix(frame, 2) # sender_IBUS_HEADER
    THEN None
    ELSE LET expected_checksum == UnpackLE16(frame, 30)
             checksum == Mask16(65535 - Mask16(SumBytes(Prefix(frame, 30))))
         IN  IF checksum # expected_checksum
             THEN None
             ELSE [i \in 1..14 |-> UnpackLE16(frame, 2 + 2 * (i - 1))]

\* args.hz in thousandths of a hertz: the default of 50 Hz, 1 Hz, and half
\* a hertz
SenderHz == {50000, 1000, 500}

\* no interval between sends
IntervalNone(hz) == 0

\* interval = 1.0 / max(args.hz, 1.0), in milliseconds
Interval(hz) == 1000000 \div (IF hz > 1000 THEN hz ELSE 1000)

\* what the receiver puts on the serial line: valid frames, a frame whose
\* checksum is wrong, and noise that ends in a header byte
SenderPieces ==
    {encode(Uniform(1500)),
     encode(Ramp),
     [encode(Ramp) EXCEPT ![31] = (@ + 1) % 256],
     <<65, 32>>}

RECURSIVE SenderStreams(_)
SenderStreams(n) ==
    IF n = 0 THEN {<<>>}
    ELSE SenderStreams(n - 1)
            \cup {s \o p : s \in SenderStreams(n - 1), p \in SenderPieces}

\* how long the loop may go without running, waiting in a serial read or for
\* the processor, in milliseconds
WaitMs == {15, 1000}

\* time.sleep(2) after an exception, in milliseconds
RETRY_MS == 2000

SenderIdle ==
    /\ snd_hz = 50000
    /\ snd_next_send = 0
    /\ snd_sent = <<>>
    /\ snd_reads = 0
    /\ snd_waits = 0
    /\ snd_opens = 0
    /\ snd_last = "none"

\* the state in which the inner loop is entered: the port has been opened
\* and nothing has been sent
SenderInit ==
    /\ rstream \in SenderStreams(MaxSenderPieces)
    /\ rstart = 0
    /\ rin = rstream
    /\ rpc = "first"
    /\ rret = None
    /\ rearly = FALSE
    /\ snd_hz \in SenderHz
    /\ snd_next_send = 0
    /\ snd_sent = <<>>
    /\ snd_reads = 0
    /\ snd_waits = 0
    /\ snd_opens = 1
    /\ snd_last = "none"

\* time passes while the loop waits in ser.read or for the processor
SenderWait ==
    /\ UNCHANGED notSender
    /\ rpc # "done"
    /\ snd_waits < MaxWaits
    /\ \E d \in WaitMs : clock' = clock + d
    /\ snd_waits' = snd_waits + 1
    /\ UNCHANGED <<readerVars, snd_hz, snd_next_send, snd_sent, snd_reads,
                   snd_opens, snd_last>>

\* sock.sendto(frame, ...) returned: the datagram is out
SendtoDone ==
    /\ snd_sent' = Append(snd_sent,
                          [data |-> rret, at |-> clock, read |-> snd_reads + 1])
    /\ snd_next_send' = clock + Interval(snd_hz)
    /\ snd_last' = "sent"
    /\ UNCHANGED <<clock, snd_opens>>

\* sock.sendto raised: the port is closed, and opened again two seconds later
SendtoRaised ==
    /\ snd_last' = "error"
    /\ clock' = clock + RETRY_MS
    /\ snd_opens' = snd_opens + 1
    /\ UNCHANGED <<snd_sent, snd_next_send>>

\* the pass ends without a send
SenderContinue(how) ==
    /\ snd_last' = how
    /\ UNCHANGED <<clock, snd_sent, snd_next_send, snd_opens>>

\* one pass of the inner loop from the return of read_ibus_frame to the
\* next call of it
SenderPass ==
    /\ UNCHANGED notSender
    /\ rpc = "done"
    /\ snd_reads < MaxReads
    /\ LET frame == rret
           channels == sender_parse_ibus_frame(frame)
           now == clock
       IN  IF frame = None THEN SenderContinue("noframe")
           ELSE IF channels = None THEN SenderContinue("invalid")
           ELSE IF now < snd_next_send THEN SenderContinue("early")
           ELSE SendtoDone \/ SendtoRaised
    /\ snd_reads' = snd_reads + 1
    /\ rpc' = "first"
    /\ UNCHANGED <<rstream, rstart, rin, rret, rearly, snd_hz, snd_waits>>

---------------------------------------------------------------------------
(* Relay output arbiter: GpioController                                    *)

\* time.monotonic() when the process starts: the time since boot, in ms
StartClock == 1000

RelayInit ==
    /\ momentary_active = FALSE
    /\ blink_active = FALSE
    /\ relay_state = FALSE

ArbiterIdle ==
    /\ a_pc = "top"
    /\ blink_state = FALSE
    /\ last_blink_time = 0
    /\ momentary = FALSE
    /\ blinking = FALSE
    /\ target_high = FALSE
    /\ pin = FALSE
    /\ flip_gaps = <<>>

ArbiterInit ==
    /\ gpio_available \in BOOLEAN
    /\ ArbiterIdle

\* set_momentary that clears the blink request as well
set_momentary_clears_blink(active) ==
    /\ UNCHANGED notArbiter
    /\ momentary_active' = active
    /\ blink_active' = FALSE
    /\ UNCHANGED <<relay_state, clock>>
    /\ UNCHANGED arbiterVars

set_momentary(active) ==
    /\ UNCHANGED notArbiter
    /\ momentary_active' = active
    /\ UNCHANGED <<blink_active, relay_state, clock>>
    /\ UNCHANGED arbiterVars

set_blink(active) ==
    /\ UNCHANGED notArbiter
    /\ blink_active' = active
    /\ UNCHANGED <<momentary_active, relay_state, clock>>
    /\ UNCHANGED arbiterVars

\* the priority logic with blink tested before momentary
ResolveBlinkFirst(m, b, phase) ==
    IF b THEN phase ELSE IF m THEN TRUE ELSE FALSE

\* the priority logic with blink driving the output high, whatever the phase
ResolveBlinkAlwaysHigh(m, b, phase) ==
    IF m THEN TRUE ELSE IF b THEN TRUE ELSE FALSE

\* target_high from the sampled requests and the blink phase
Resolve(m, b, phase) ==
    IF m THEN TRUE ELSE IF b THEN phase ELSE FALSE

\* now = time.monotonic(); flip the blink phase when more than 0.5 s passed
ArbBlink ==
    /\ UNCHANGED notArbiter
    /\ a_pc = "top"
    /\ IF clock - last_blink_time > BLINK_INTERVAL_MS
       THEN /\ blink_state' = ~blink_state
            /\ last_blink_time' = clock
            /\ flip_gaps' = IF last_blink_time = 0 THEN flip_gaps
                            ELSE Append(flip_gaps, clock - last_blink_time)
       ELSE UNCHANGED <<blink_state, last_blink_time, flip_gaps>>
    /\ a_pc' = "sample"
    /\ UNCHANGED <<gpio_available, momentary, blinking, target_high, pin>>
    /\ UNCHANGED <<clock, momentary_active, blink_active, relay_state>>

\* the sample reading the blink request only: the momentary request of the
\* tick before is used again
ArbSampleKeepsMomentary ==
    /\ UNCHANGED notArbiter
    /\ a_pc = "sample"
    /\ momentary' = momentary
    /\ blinking' = blink_active
    /\ a_pc' = "resolve"
    /\ UNCHANGED <<gpio_available, blink_state, last_blink_time, target_high,
                   pin, flip_gaps>>
    /\ UNCHANGED <<clock, momentary_active, blink_active, relay_state>>

\* with self.state.lock: read both request flags
ArbSample ==
    /\ UNCHANGED notArbiter
    /\ a_pc = "sample"
    /\ momentary' = momentary_active
    /\ blinking' = blink_active
    /\ a_pc' = "resolve"
    /\ UNCHANGED <<gpio_available, blink_state, last_blink_time, target_high,
                   pin, flip_gaps>>
    /\ UNCHANGED <<clock, momentary_active, blink_active, relay_state>>

\* resolve the level and write it to the pin when there is one
ArbResolve ==
    /\ UNCHANGED notArbiter
    /\ a_pc = "resolve"
    /\ target_high' = Resolve(momentary, blinking, blink_state)
    /\ pin' = IF gpio_available THEN target_high' ELSE pin
    /\ a_pc' = "publish"
    /\ UNCHANGED <<gpio_available, blink_state, last_blink_time, momentary,
                   blinking, flip_gaps>>
    /\ UNCHANGED <<clock, momentary_active, blink_active, relay_state>>

\* with self.state.lock: relay_state = target_high
ArbPublish ==
    /\ UNCHANGED notArbiter
    /\ a_pc = "publish"
    /\ relay_state' = target_high
    /\ a_pc' = "sleep"
    /\ UNCHANGED <<gpio_available, blink_state, last_blink_time, momentary,
                   blinking, target_high, pin, flip_gaps>>
    /\ UNCHANGED <<clock, momentary_active, blink_active>>

\* time.sleep(0.05): at least 50 ms pass
ArbSleep ==
    /\ UNCHANGED notArbiter
    /\ a_pc = "sleep"
    /\ \E d \in {UPDATE_SLEEP_MS, UPDATE_SLEEP_MS + SleepOverrunMs} :
          /\ clock + d <= StartClock + ArbiterHorizonMs
          /\ clock' = clock + d
    /\ a_pc' = "top"
    /\ UNCHANGED <<gpio_available, blink_state, last_blink_time, momentary,
                   blinking, target_high, pin, flip_gaps>>
    /\ UNCHANGED <<momentary_active, blink_active, relay_state>>

\* POST /api/gpio/momentary
gpio_momentary == \E active \in BOOLEAN : set_momentary(active)

\* POST /api/gpio/blink
gpio_blink == \E active \in BOOLEAN : set_blink(active)

---------------------------------------------------------------------------
(* GpioController.set_servo and POST /api/servo/<id>                       *)

\* Duty cycles are counted in 1/36 percent, so that 2.5 + angle / 18.0 is the
\* whole number 90 + 2 * angle for a whole angle: 2.5 is 90, 7.5 is 270,
\* 12.5 is 450.
DUTY_MIN == 90

DUTY_MAX == 450

\* pwm.start(7.5)
DUTY_NEUTRAL == 270

\* data.get("angle", 90)
DEFAULT_ANGLE == 90

Max(a, b) == IF a >= b THEN a ELSE b

Min(a, b) == IF a <= b THEN a ELSE b

\* the servo ids a request may carry (the route takes any non-negative int)
ServoIds == {0, 1, 2, 3}

\* the angles a request may carry
Angles == {-90, -1, 0, 1, 45, 90, 179, 180, 181, 270}

\* the "angle" member of the request body, <<>> when it is absent
AngleArgs == {<<a>> : a \in Angles} \cup {<<>>}

\* the PWM outputs after GpioController.__init__: started at 7.5 when the
\* GPIO library is there, none otherwise
ServoInit ==
    /\ duty1 = (IF gpio_available THEN DUTY_NEUTRAL ELSE 0)
    /\ duty2 = (IF gpio_available THEN DUTY_NEUTRAL ELSE 0)
    /\ servo_req = <<>>

\* what a servo request leaves alone
notServo == <<codecVars, readerVars, clock, relayVars, arbiterVars,
              telemetryVars, bridgeVars, status, queryVars, threadVars,
              mainVars, pollVars, senderVars, serialVars, extractorVars>>

\* set_servo with the clamp of line 515 left out
set_servo_unclamped(servo_id, angle) ==
    LET duty == DUTY_MIN + 2 * angle
    IN  IF gpio_available /\ servo_id = 1
        THEN [pwm1 |-> duty, pwm2 |-> duty2]
        ELSE IF gpio_available /\ servo_id = 2
             THEN [pwm1 |-> duty1, pwm2 |-> duty]
             ELSE [pwm1 |-> duty1, pwm2 |-> duty2]

\* GpioController.set_servo: the duty cycles of the two outputs afterwards
set_servo(servo_id, angle) ==
    LET duty == Max(DUTY_MIN, Min(DUTY_MAX, DUTY_MIN + 2 * angle))
    IN  IF gpio_available /\ servo_id = 1
        THEN [pwm1 |-> duty, pwm2 |-> duty2]
        ELSE IF gpio_available /\ servo_id = 2
             THEN [pwm1 |-> duty1, pwm2 |-> duty]
             ELSE [pwm1 |-> duty1, pwm2 |-> duty2]

\* POST /api/servo/<int:id>
servo_route ==
    /\ UNCHANGED notServo
    /\ \E id \in ServoIds, arg \in AngleArgs :
          LET angle == IF arg = <<>> THEN DEFAULT_ANGLE ELSE arg[1]
              out == set_servo(id, angle)
          IN  /\ duty1' = out.pwm1
              /\ duty2' = out.pwm2
              /\ servo_req' = << [id |-> id, angle |-> angle] >>
    /\ UNCHANGED shutdown

---------------------------------------------------------------------------
(* main: shutdown                                                          *)

MainIdle == shutdown = FALSE

\* app.run ends (Ctrl-C) and the finally block runs gpio.cleanup(), which
\* stops both PWM outputs when the GPIO library is there
MainCleanup ==
    /\ UNCHANGED <<codecVars, readerVars, clock, relayVars, arbiterVars,
                   telemetryVars, bridgeVars, status, queryVars, threadVars,
                   pollVars, senderVars, serialVars, extractorVars>>
    /\ ~shutdown
    /\ shutdown' = TRUE
    /\ duty1' = 0
    /\ duty2' = 0
    /\ UNCHANGED servo_req

---------------------------------------------------------------------------
(* SharedState: the log ring                                               *)

\* a log entry; `line` holds the code points of a controller line, and `at`
\* is the instant of the append, which the "ts" string is formatted from
LogEntry(id, src, msg, line) ==
    [id |-> id, src |-> src, msg |-> msg, line |-> line, at |-> clock]

\* list.append: nothing is evicted
RingAppendUnbounded(q, e) == Append(q, e)

\* deque.append on a deque(maxlen=1000)
RingAppend(q, e) ==
    IF Len(q) >= LOG_MAXLEN THEN Append(Tail(q), e) ELSE Append(q, e)

\* SharedState.add_log on the pair L = [logs, next_log_id]
add_log(L, src, msg, line) ==
    [logs |-> RingAppend(L.logs, LogEntry(L.next_log_id, src, msg, line)),
     next_log_id |-> L.next_log_id + 1]

\* the ring and its id counter as they stand
LogState == [logs |-> logs, next_log_id |-> next_log_id]

TelemetryInit ==
    /\ last_rc_time = 0
    /\ last_rc_sender = ""
    /\ packets_rx = 0
    /\ packets_uart_tx = 0
    /\ uart_rx_lines = 0
    /\ uart_open = FALSE
    /\ logs = <<>>
    /\ next_log_id = 1

---------------------------------------------------------------------------
(* bridge_loop                                                             *)

\* the valid frames a sender may transmit
GoodFrame == encode(Uniform(1500))

OtherGoodFrame == encode(Ramp)

\* 32 bytes, header 0x20 0x40, checksum bytes wrong
BadChecksumFrame == [GoodFrame EXCEPT ![32] = (GoodFrame[32] + 1) % 256]

\* 32 bytes with a valid checksum over a wrong header
BadHeaderFrame ==
    LET body == <<33, 64>> \o SubSeq(GoodFrame, 3, 30)
    IN  body \o PackLE16((65535 - SumBytes(body)) % 65536)

\* the datagram payloads the network may deliver
Datagrams ==
    {GoodFrame, OtherGoodFrame, BadChecksumFrame, BadHeaderFrame,
     <<>>, <<32, 64, 0>>, GoodFrame \o <<0>>}

\* the "ip:port" of the senders
Senders == {"192.168.50.1:40000", "192.168.50.9:40001"}

\* the chunks the serial port may deliver: a whole line, a line with "\r\n",
\* an unterminated piece, a blank line, a line of spaces, a non-ASCII byte
SerialChunks ==
    {<<111, 107, 10>>, <<111, 107, 13, 10>>, <<111>>, <<10>>,
     <<32, 10>>, <<200, 10>>}

BridgeIdle ==
    /\ b_pc = "bind"
    /\ uart_dev = FALSE
    /\ last_rx_time = 0
    /\ last_no_rx_log_sec = NO_BUCKET
    /\ uart_line_buf = <<>>
    /\ data = <<>>
    /\ sender = ""
    /\ uart_written = <<>>
    /\ n_event = 0

\* sock.bind(...) with the return after a failed bind left out
BridgeBindCarriesOn ==
    /\ UNCHANGED notBridge
    /\ b_pc = "bind"
    /\ \/ /\ b_pc' = "uart_setup"
          /\ LET L == add_log(LogState, "PI", "UDP listening", <<>>)
             IN  logs' = L.logs /\ next_log_id' = L.next_log_id
       \/ /\ b_pc' = "uart_setup"
          /\ LET L == add_log(LogState, "PI", "ERROR: UDP bind failed", <<>>)
             IN  logs' = L.logs /\ next_log_id' = L.next_log_id
    /\ UNCHANGED <<last_rc_time, last_rc_sender, packets_rx, packets_uart_tx,
                   uart_rx_lines, uart_open>>
    /\ UNCHANGED <<uart_dev, last_rx_time, last_no_rx_log_sec, uart_line_buf,
                   data, sender, uart_written, n_event>>
    /\ UNCHANGED clock
    /\ status' = <<>>

\* sock.bind(...), lines 583-593
BridgeBind ==
    /\ UNCHANGED notBridge
    /\ b_pc = "bind"
    /\ \/ /\ b_pc' = "uart_setup"
          /\ LET L == add_log(LogState, "PI", "UDP listening", <<>>)
             IN  logs' = L.logs /\ next_log_id' = L.next_log_id
       \/ /\ b_pc' = "returned"
          /\ LET L == add_log(LogState, "PI", "ERROR: UDP bind failed", <<>>)
             IN  logs' = L.logs /\ next_log_id' = L.next_log_id
    /\ UNCHANGED <<last_rc_time, last_rc_sender, packets_rx, packets_uart_tx,
                   uart_rx_lines, uart_open>>
    /\ UNCHANGED <<uart_dev, last_rx_time, last_no_rx_log_sec, uart_line_buf,
                   data, sender, uart_written, n_event>>
    /\ UNCHANGED clock
    /\ status' = <<>>

\* serial.Serial(...), lines 595-611
BridgeUartSetup ==
    /\ UNCHANGED notBridge
    /\ b_pc = "uart_setup"
    /\ \/ /\ uart_dev' = TRUE
          /\ uart_open' = TRUE
          /\ LET L == add_log(LogState, "PI", "UART open", <<>>)
             IN  logs' = L.logs /\ next_log_id' = L.next_log_id
       \/ /\ uart_dev' = FALSE
          /\ uart_open' = FALSE
          /\ LET L == add_log(LogState, "PI", "UART error", <<>>)
             IN  logs' = L.logs /\ next_log_id' = L.next_log_id
    /\ b_pc' = "select"
    /\ UNCHANGED <<last_rc_time, last_rc_sender, packets_rx, packets_uart_tx,
                   uart_rx_lines>>
    /\ UNCHANGED <<last_rx_time, last_no_rx_log_sec, uart_line_buf, data, sender,
                   uart_written, n_event>>
    /\ UNCHANGED clock
    /\ status' = <<>>

\* the receive step with an exception of recvfrom ending the loop
BridgeRecvEndsOnError ==
    /\ UNCHANGED notBridge
    /\ b_pc = "select"
    /\ \/ \* nothing readable within the poll timeout
          /\ b_pc' = "uart"
          /\ UNCHANGED <<data, sender, last_rx_time, n_event>>
          /\ UNCHANGED <<last_rc_time, last_rc_sender, packets_rx, logs, next_log_id>>
       \/ \* a datagram is read
          /\ n_event < MaxEvents
          /\ n_event' = n_event + 1
          /\ \E d \in Datagrams, a \in Senders :
                /\ data' = d
                /\ IF d # <<>>
                   THEN /\ last_rx_time' = clock
                        /\ sender' = a
                        /\ last_rc_time' = clock
                        /\ last_rc_sender' = a
                        /\ packets_rx' = packets_rx + 1
                        /\ b_pc' = "forward"
                   ELSE /\ b_pc' = "uart"
                        /\ UNCHANGED <<last_rx_time, sender, last_rc_time,
                                       last_rc_sender, packets_rx>>
          /\ UNCHANGED <<logs, next_log_id>>
       \/ \* recvfrom raises
          /\ n_event < MaxEvents
          /\ n_event' = n_event + 1
          /\ LET L == add_log(LogState, "PI", "UDP receive error", <<>>)
             IN  logs' = L.logs /\ next_log_id' = L.next_log_id
          /\ b_pc' = "returned"
          /\ UNCHANGED <<data, sender, last_rx_time>>
          /\ UNCHANGED <<last_rc_time, last_rc_sender, packets_rx>>
    /\ UNCHANGED <<packets_uart_tx, uart_rx_lines, uart_open>>
    /\ UNCHANGED <<uart_dev, last_no_rx_log_sec, uart_line_buf, uart_written>>
    /\ UNCHANGED clock
    /\ status' = <<>>

\* select.select and sock.recvfrom, lines 617-630 and 645-646
BridgeRecv ==
    /\ UNCHANGED notBridge
    /\ b_pc = "select"
    /\ \/ \* nothing readable within the poll timeout
          /\ b_pc' = "uart"
          /\ UNCHANGED <<data, sender, last_rx_time, n_event>>
          /\ UNCHANGED <<last_rc_time, last_rc_sender, packets_rx, logs, next_log_id>>
       \/ \* a datagram is read
          /\ n_event < MaxEvents
          /\ n_event' = n_event + 1
          /\ \E d \in Datagrams, a \in Senders :
                /\ data' = d
                /\ IF d # <<>>
                   THEN /\ last_rx_time' = clock
                        /\ sender' = a
                        /\ last_rc_time' = clock
                        /\ last_rc_sender' = a
                        /\ packets_rx' = packets_rx + 1
                        /\ b_pc' = "forward"
                   ELSE /\ b_pc' = "uart"
                        /\ UNCHANGED <<last_rx_time, sender, last_rc_time,
                                       last_rc_sender, packets_rx>>
          /\ UNCHANGED <<logs, next_log_id>>
       \/ \* recvfrom raises
          /\ n_event < MaxEvents
          /\ n_event' = n_event + 1
          /\ LET L == add_log(LogState, "PI", "UDP receive error", <<>>)
             IN  logs' = L.logs /\ next_log_id' = L.next_log_id
          /\ b_pc' = "uart"
          /\ UNCHANGED <<data, sender, last_rx_time>>
          /\ UNCHANGED <<last_rc_time, last_rc_sender, packets_rx>>
    /\ UNCHANGED <<packets_uart_tx, uart_rx_lines, uart_open>>
    /\ UNCHANGED <<uart_dev, last_no_rx_log_sec, uart_line_buf, uart_written>>
    /\ UNCHANGED clock
    /\ status' = <<>>

\* the forwarding test with the length comparison left out
ShouldForwardAnyLength(dev, d) ==
    dev /\ Prefix(d, 2) = IBUS_HEADER

\* the forwarding test with the test of the serial device left out
ShouldForwardWithoutDevice(dev, d) ==
    Len(d) = IBUS_FRAME_LEN /\ Prefix(d, 2) = IBUS_HEADER

\* the forwarding test of line 634
ShouldForward(dev, d) ==
    dev /\ Len(d) = IBUS_FRAME_LEN /\ Prefix(d, 2) = IBUS_HEADER

\* the forward step counting a write that raised as forwarded
BridgeForwardCountsFailures ==
    /\ UNCHANGED notBridge
    /\ b_pc = "forward"
    /\ IF ShouldForward(uart_dev, data)
       THEN \/ /\ uart_written' = Append(uart_written, data)
               /\ packets_uart_tx' = packets_uart_tx + 1
               /\ n_event' = n_event
            \/ /\ n_event < MaxEvents
               /\ n_event' = n_event + 1
               /\ packets_uart_tx' = packets_uart_tx + 1
               /\ UNCHANGED uart_written
       ELSE UNCHANGED <<uart_written, packets_uart_tx, n_event>>
    /\ b_pc' = "rxlog"
    /\ UNCHANGED <<last_rc_time, last_rc_sender, packets_rx, uart_rx_lines,
                   uart_open, logs, next_log_id>>
    /\ UNCHANGED <<uart_dev, last_rx_time, last_no_rx_log_sec, uart_line_buf,
                   data, sender>>
    /\ UNCHANGED clock
    /\ status' = <<>>

\* uart_dev.write(data) under suppress(Exception), lines 634-638
BridgeForward ==
    /\ UNCHANGED notBridge
    /\ b_pc = "forward"
    /\ IF ShouldForward(uart_dev, data)
       THEN \/ /\ uart_written' = Append(uart_written, data)
               /\ packets_uart_tx' = packets_uart_tx + 1
               /\ n_event' = n_event
            \/ \* the write raises, and the exception is suppressed
               /\ n_event < MaxEvents
               /\ n_event' = n_event + 1
               /\ UNCHANGED <<uart_written, packets_uart_tx>>
       ELSE UNCHANGED <<uart_written, packets_uart_tx, n_event>>
    /\ b_pc' = "rxlog"
    /\ UNCHANGED <<last_rc_time, last_rc_sender, packets_rx, uart_rx_lines,
                   uart_open, logs, next_log_id>>
    /\ UNCHANGED <<uart_dev, last_rx_time, last_no_rx_log_sec, uart_line_buf,
                   data, sender>>
    /\ UNCHANGED clock
    /\ status' = <<>>

\* the two progress entries, lines 640-644
BridgeRxLog ==
    /\ UNCHANGED notBridge
    /\ b_pc = "rxlog"
    /\ LET L1 == IF packets_rx % RELAY_LOG_EVERY = 0
                 THEN add_log(LogState, "RC", "Relayed 50 iBUS frames to ESP32", <<>>)
                 ELSE LogState
           L2 == IF packets_rx = 1
                 THEN add_log(L1, "RC", "First UDP frame from " \o sender, <<>>)
                 ELSE L1
       IN  logs' = L2.logs /\ next_log_id' = L2.next_log_id
    /\ b_pc' = "uart"
    /\ UNCHANGED <<last_rc_time, last_rc_sender, packets_rx, packets_uart_tx,
                   uart_rx_lines, uart_open>>
    /\ UNCHANGED <<uart_dev, last_rx_time, last_no_rx_log_sec, uart_line_buf,
                   data, sender, uart_written, n_event>>
    /\ UNCHANGED clock
    /\ status' = <<>>

\* bytes.decode('ascii', errors='replace'): a byte above 127 becomes U+FFFD
DecodeAscii(buf) == [i \in 1..Len(buf) |-> IF buf[i] > 127 THEN 65533 ELSE buf[i]]

\* the code points str.strip() removes
Whitespace == {9, 10, 11, 12, 13, 28, 29, 30, 31, 32}

RECURSIVE StripLeft(_)
StripLeft(t) ==
    IF t # <<>> /\ Head(t) \in Whitespace THEN StripLeft(Tail(t)) ELSE t

RECURSIVE StripRight(_)
StripRight(t) ==
    IF t # <<>> /\ t[Len(t)] \in Whitespace
    THEN StripRight(SubSeq(t, 1, Len(t) - 1))
    ELSE t

\* str.strip()
Strip(t) == StripRight(StripLeft(t))

\* the loop over the bytes of one chunk with '\r' appended like any byte
RECURSIVE ProcessChunkKeepsCR(_, _)
ProcessChunkKeepsCR(chunk, acc) ==
    IF chunk = <<>> THEN acc
    ELSE LET b == Head(chunk)
             line_str == Strip(DecodeAscii(acc.buf))
             step ==
                 IF b = 10
                 THEN IF line_str # <<>>
                      THEN [buf |-> <<>>,
                            L |-> add_log(acc.L, "ESP32", "line", line_str),
                            lines |-> acc.lines + 1]
                      ELSE [acc EXCEPT !.buf = <<>>]
                 ELSE IF TRUE
                      THEN IF Len(acc.buf) + 1 > UART_LINE_MAX
                           THEN [acc EXCEPT !.buf = <<>>]
                           ELSE [acc EXCEPT !.buf = Append(acc.buf, b)]
                      ELSE acc
         IN  ProcessChunkKeepsCR(Tail(chunk), step)

\* the loop over the bytes of one chunk with the overflow test left out
RECURSIVE ProcessChunkUnbounded(_, _)
ProcessChunkUnbounded(chunk, acc) ==
    IF chunk = <<>> THEN acc
    ELSE LET b == Head(chunk)
             line_str == Strip(DecodeAscii(acc.buf))
             step ==
                 IF b = 10
                 THEN IF line_str # <<>>
                      THEN [buf |-> <<>>,
                            L |-> add_log(acc.L, "ESP32", "line", line_str),
                            lines |-> acc.lines + 1]
                      ELSE [acc EXCEPT !.buf = <<>>]
                 ELSE IF b # 13
                      THEN [acc EXCEPT !.buf = Append(acc.buf, b)]
                      ELSE acc
         IN  ProcessChunkUnbounded(Tail(chunk), step)

\* the loop over the bytes of one chunk, lines 653-663, on the accumulator
\* acc = [buf, L, lines]
RECURSIVE ProcessChunk(_, _)
ProcessChunk(chunk, acc) ==
    IF chunk = <<>> THEN acc
    ELSE LET b == Head(chunk)
             line_str == Strip(DecodeAscii(acc.buf))
             step ==
                 IF b = 10
                 THEN IF line_str # <<>>
                      THEN [buf |-> <<>>,
                            L |-> add_log(acc.L, "ESP32", "line", line_str),
                            lines |-> acc.lines + 1]
                      ELSE [acc EXCEPT !.buf = <<>>]
                 ELSE IF b # 13
                      THEN IF Len(acc.buf) + 1 > UART_LINE_MAX
                           THEN [acc EXCEPT !.buf = <<>>]
                           ELSE [acc EXCEPT !.buf = Append(acc.buf, b)]
                      ELSE acc
         IN  ProcessChunk(Tail(chunk), step)

\* the serial read under suppress(Exception), lines 648-663
BridgeUartRead ==
    /\ UNCHANGED notBridge
    /\ b_pc = "uart"
    /\ IF uart_dev
       THEN \/ \* in_waiting is 0
               UNCHANGED <<uart_line_buf, logs, next_log_id, uart_rx_lines,
                           n_event>>
            \/ \* a chunk is read and split into lines
               /\ n_event < MaxEvents
               /\ n_event' = n_event + 1
               /\ \E chunk \in SerialChunks :
                     LET r == ProcessChunk(chunk, [buf |-> uart_line_buf,
                                                   L |-> LogState,
                                                   lines |-> uart_rx_lines])
                     IN  /\ uart_line_buf' = r.buf
                         /\ logs' = r.L.logs
                         /\ next_log_id' = r.L.next_log_id
                         /\ uart_rx_lines' = r.lines
            \/ \* in_waiting or read raises, and the exception is suppressed
               /\ n_event < MaxEvents
               /\ n_event' = n_event + 1
               /\ UNCHANGED <<uart_line_buf, logs, next_log_id, uart_rx_lines>>
       ELSE UNCHANGED <<uart_line_buf, logs, next_log_id, uart_rx_lines,
                        n_event>>
    /\ b_pc' = "live"
    /\ UNCHANGED <<last_rc_time, last_rc_sender, packets_rx, packets_uart_tx,
                   uart_open>>
    /\ UNCHANGED <<uart_dev, last_rx_time, last_no_rx_log_sec, data, sender,
                   uart_written>>
    /\ UNCHANGED clock
    /\ status' = <<>>

\* ---- the serial stream of a run, read in pieces

\* a run of n bytes 'x' without a terminator
RunOfX(n) == [i \in 1..n |-> 120]

\* the pieces a stream is made of: "ok\n", "ok\r\n", "o\rk\n", "\n", " \n",
\* " ok \n", a non-ASCII byte and "\n", an unterminated "a", a line of
\* exactly 256 bytes, and 257 bytes without a terminator
SerialPieces ==
    {<<111, 107, 10>>, <<111, 107, 13, 10>>, <<111, 13, 107, 10>>, <<10>>,
     <<32, 10>>, <<32, 111, 107, 32, 10>>, <<200, 10>>, <<97>>,
     RunOfX(UART_LINE_MAX) \o <<10>>, RunOfX(UART_LINE_MAX + 1)}

RECURSIVE SerialStreams(_)
SerialStreams(n) ==
    IF n = 0 THEN {<<>>}
    ELSE SerialStreams(n - 1)
            \cup {s \o p : s \in SerialStreams(n - 1), p \in SerialPieces}

\* uart_dev.in_waiting: how many bytes one read may find waiting
ReadSizes == {1, 3, 8}

SerialIdle ==
    /\ sstream = <<>>
    /\ sfed = 0

SerialInit ==
    /\ sstream \in SerialStreams(MaxPieces)
    /\ sfed = 0

\* one serial read of lines 651-663 on an open port
SerialRead ==
    /\ UNCHANGED <<codecVars, readerVars, clock, relayVars, arbiterVars,
                   status, queryVars, threadVars, mainVars, pollVars, senderVars, servoVars,
                   extractorVars>>
    /\ sfed < Len(sstream)
    /\ \E n \in ReadSizes :
          LET m == Min(n, Len(sstream) - sfed)
              chunk == SubSeq(sstream, sfed + 1, sfed + m)
              r == ProcessChunk(chunk, [buf |-> uart_line_buf,
                                        L |-> LogState,
                                        lines |-> uart_rx_lines])
          IN  /\ uart_line_buf' = r.buf
              /\ logs' = r.L.logs
              /\ next_log_id' = r.L.next_log_id
              /\ uart_rx_lines' = r.lines
              /\ sfed' = sfed + m
    /\ UNCHANGED sstream
    /\ UNCHANGED <<last_rc_time, last_rc_sender, packets_rx, packets_uart_tx,
                   uart_open>>
    /\ UNCHANGED <<b_pc, uart_dev, last_rx_time, last_no_rx_log_sec, data,
                   sender, uart_written, n_event>>

\* the bucket taken from the milliseconds, the conversion to whole seconds
\* left out
BucketOfMillis(now) == now \div LOG_BUCKET_S

\* int(now_mono) // 5 for now_mono in milliseconds
Bucket(now) == (now \div 1000) \div LOG_BUCKET_S

\* the liveness entries, lines 665-678; the next pass then starts
BridgeLiveness ==
    /\ UNCHANGED notBridge
    /\ b_pc = "live"
    /\ LET now_mono == clock
           bucket == Bucket(now_mono)
       IN  IF last_rx_time = 0
           THEN IF bucket # last_no_rx_log_sec
                THEN /\ last_no_rx_log_sec' = bucket
                     /\ LET L == add_log(LogState, "PI",
                                         "Waiting for first RC frame from PC sender...",
                                         <<>>)
                        IN  logs' = L.logs /\ next_log_id' = L.next_log_id
                ELSE UNCHANGED <<last_no_rx_log_sec, logs, next_log_id>>
           ELSE IF now_mono - last_rx_time > FAILSAFE_MS
                THEN IF bucket # last_no_rx_log_sec
                     THEN /\ last_no_rx_log_sec' = bucket
                          /\ LET L == add_log(LogState, "PI",
                                              "RC signal lost - sent NO_SIGNAL to ESP32",
                                              <<>>)
                             IN  logs' = L.logs /\ next_log_id' = L.next_log_id
                     ELSE UNCHANGED <<last_no_rx_log_sec, logs, next_log_id>>
                ELSE UNCHANGED <<last_no_rx_log_sec, logs, next_log_id>>
    /\ b_pc' = "select"
    /\ data' = <<>>
    /\ uart_written' = <<>>
    /\ UNCHANGED <<last_rc_time, last_rc_sender, packets_rx, packets_uart_tx,
                   uart_rx_lines, uart_open>>
    /\ UNCHANGED <<uart_dev, last_rx_time, uart_line_buf, sender, n_event>>
    /\ UNCHANGED clock
    /\ status' = <<>>

\* time passes. The loop reads the clock when select returns (line 622) and
\* before the liveness test (line 665), so time is let pass at those two
\* places, and after the loop has returned.
Tick ==
    /\ UNCHANGED notBridge
    /\ b_pc \in {"select", "live", "returned"}
    /\ clock + TimeStepMs <= BridgeStartClock + BridgeHorizonMs
    /\ clock' = clock + TimeStepMs
    /\ UNCHANGED <<telemetryVars, bridgeVars>>
    /\ status' = <<>>

\* GET /api/status, lines 689-705
api_status ==
    /\ UNCHANGED notBridge
    /\ \E eth \in BOOLEAN :
          LET last_age == IF last_rc_time > 0 THEN clock - last_rc_time
                          ELSE NEVER_AGE_MS
          IN  status' = << [ethernet_up |-> eth,
                            link_alive |-> last_age < LINK_ALIVE_MS,
                            last_rc_age_ms |-> last_age,
                            packets_rx |-> packets_rx,
                            packets_uart_tx |-> packets_uart_tx,
                            uart_rx_lines |-> uart_rx_lines,
                            uart_open |-> uart_open,
                            last_rc_sender |-> last_rc_sender,
                            blink_active |-> blink_active,
                            relay_state |-> relay_state] >>
    /\ UNCHANGED <<telemetryVars, bridgeVars, clock>>

---------------------------------------------------------------------------
(* SharedState.get_logs_since and GET /api/logs                            *)

\* the filter with the comparison taken as "at or after the cursor"
get_logs_from(L, since_id) == SelectSeq(L, LAMBDA e : e.id >= since_id)

\* SharedState.get_logs_since: [entry for entry in self.logs if entry["id"] > since_id]
get_logs_since(L, since_id) == SelectSeq(L, LAMBDA e : e.id > since_id)

\* a "since" parameter as it arrives: text that int() accepts, with its
\* value, or text it rejects
Number(n) == [ok |-> TRUE, n |-> n]

NotANumber == [ok |-> FALSE, n |-> 0]

\* int(request.args.get("since", "0")) with ValueError turned into 0
ParseSince(param) == IF param.ok THEN param.n ELSE 0

\* the cursors a client may send: before the first id, the first id, around
\* the oldest retained id, around the newest id, past it, and no number
SinceParams ==
    {Number(n) : n \in {-1, 0, 1,
                     next_log_id - LOG_MAXLEN - 1, next_log_id - LOG_MAXLEN,
                     next_log_id - 2, next_log_id - 1, next_log_id + 1}}
        \cup {NotANumber}

\* GET /api/logs
api_logs ==
    /\ UNCHANGED notRing
    /\ \E param \in SinceParams :
          LET since == ParseSince(param)
          IN  qres' = << [since |-> since, logs |-> get_logs_since(logs, since)] >>
    /\ UNCHANGED telemetryVars

\* some component calls state.add_log(src, msg)
RingAddLog ==
    /\ UNCHANGED notRing
    /\ next_log_id <= LOG_MAXLEN + MaxEvicted
    /\ LET L == add_log(LogState, "SYS", "status", <<>>)
       IN  logs' = L.logs /\ next_log_id' = L.next_log_id
    /\ qres' = <<>>
    /\ UNCHANGED <<last_rc_time, last_rc_sender, packets_rx, packets_uart_tx,
                   uart_rx_lines, uart_open>>

---------------------------------------------------------------------------
(* The dashboard's log console: refreshLogs against /api/logs              *)

\* how many entries are appended in one go between two steps of the page
BurstSizes == {1, 2, LOG_MAXLEN, LOG_MAXLEN + 1}

\* k calls of state.add_log, one after the other: the entries get the next
\* k ids in order and the deque keeps the newest LOG_MAXLEN of what it held
\* and what was appended
AddLogs(L, k) ==
    IF k = 1 THEN add_log(L, "SYS", "status", <<>>)
    ELSE LET all == L.logs \o [i \in 1..k |->
                                 LogEntry(L.next_log_id + i - 1, "SYS",
                                          "status", <<>>)]
             evicted == IF Len(all) > LOG_MAXLEN THEN Len(all) - LOG_MAXLEN
                        ELSE 0
         IN  [logs |-> SubSeq(all, evicted + 1, Len(all)),
              next_log_id |-> L.next_log_id + k]

\* the ids of a list of entries, in its order
IdsOf(entries) == [i \in 1..Len(entries) |-> entries[i].id]

\* the sequence q without its i-th element
Without(q, i) == SubSeq(q, 1, i - 1) \o SubSeq(q, i + 1, Len(q))

\* `let lastId = 0`, and nothing requested yet
PollIdle ==
    /\ lastId = 0
    /\ inflight = <<>>
    /\ seen_max = 0
    /\ poll_last = <<>>
    /\ n_polls = 0
    /\ n_bursts = 0

\* components append entries
RingBurst ==
    /\ UNCHANGED notPoll
    /\ n_bursts < MaxBursts
    /\ n_bursts' = n_bursts + 1
    /\ \E k \in BurstSizes :
          /\ next_log_id + k <= LOG_MAXLEN + MaxEvicted + 1
          /\ LET L == AddLogs(LogState, k)
             IN  logs' = L.logs /\ next_log_id' = L.next_log_id
    /\ UNCHANGED <<last_rc_time, last_rc_sender, packets_rx, packets_uart_tx,
                   uart_rx_lines, uart_open>>
    /\ UNCHANGED <<qres, lastId, inflight, seen_max, poll_last, n_polls>>

\* the timer runs refreshLogs: fetch('/api/logs?since=' + lastId) is sent,
\* whether or not an earlier request is still under way
PollSend ==
    /\ UNCHANGED notPoll
    /\ n_polls < MaxPolls
    /\ Len(inflight) < MaxInFlight
    /\ inflight' = Append([i \in 1..Len(inflight) |->
                              [inflight[i] EXCEPT !.alone = FALSE]],
                          [since |-> Number(lastId), answered |-> FALSE,
                           ids |-> <<>>, next |-> 0,
                           alone |-> inflight = <<>>,
                           seen_at_send |-> seen_max])
    /\ n_polls' = n_polls + 1
    /\ UNCHANGED <<telemetryVars, qres, lastId, seen_max, poll_last, n_bursts>>

\* api_logs answers one of the requests
PollServe ==
    /\ UNCHANGED notPoll
    /\ \E i \in 1..Len(inflight) :
          /\ ~inflight[i].answered
          /\ LET since == ParseSince(inflight[i].since)
                 answer == get_logs_since(logs, since)
             IN  /\ qres' = << [since |-> since, logs |-> answer] >>
                 /\ inflight' = [inflight EXCEPT ![i].answered = TRUE,
                                                 ![i].ids = IdsOf(answer),
                                                 ![i].next = next_log_id]
    /\ UNCHANGED <<telemetryVars, lastId, seen_max, poll_last, n_polls, n_bursts>>

\* a response reaches the page: data.logs.forEach(item => lastId = item.id)
PollReceive ==
    /\ UNCHANGED notPoll
    /\ \E i \in 1..Len(inflight) :
          /\ inflight[i].answered
          /\ LET r == inflight[i]
                 n == Len(r.ids)
             IN  /\ lastId' = IF n = 0 THEN lastId ELSE r.ids[n]
                 /\ seen_max' = IF n > 0 /\ r.ids[n] > seen_max
                                THEN r.ids[n] ELSE seen_max
                 /\ poll_last' =
                       << [ids |-> r.ids,
                           cursor |-> ParseSince(r.since),
                           next |-> r.next,
                           alone |-> r.alone,
                           seen_at_send |-> r.seen_at_send,
                           seen_before |-> seen_max,
                           prev_next |-> IF poll_last = <<>> THEN 1
                                         ELSE poll_last[1].next] >>
          /\ inflight' = Without(inflight, i)
    /\ UNCHANGED <<telemetryVars, qres, n_polls, n_bursts>>

---------------------------------------------------------------------------
(* The threads on SharedState.lock                                         *)

\* Each thread stands at the statement it runs next; at the name of a call
\* that waits (BlockingCalls) it is inside that call, and its step away from
\* there is the call returning.
Threads == {"bridge", "monitor", "status", "logs", "arbiter"}

ThreadsIdle ==
    /\ lock = "free"
    /\ t_pc = [t \in Threads |-> "top"]

\* the socket, serial, subprocess and sleep calls of the threads
BlockingCalls ==
    {"recvfrom", "uart_write", "vcgencmd", "check_ethernet_up", "sleep"}

Goto(t, label) == t_pc' = [t_pc EXCEPT ![t] = label]

\* a lock that is handed to every caller
LockNeverHeld(t) == TRUE

\* threading.Lock.acquire can return: nobody holds the lock
CanAcquire(t) == lock = "free"

\* entering `with state.lock:`
Acquire(t, from, to) ==
    /\ t_pc[t] = from
    /\ CanAcquire(t)
    /\ lock' = t
    /\ Goto(t, to)

\* what the steps of the threads leave alone
notThreads == <<codecVars, readerVars, clock, arbiterVars, bridgeVars,
               extractorVars,
    mainVars, pollVars, senderVars, serialVars, servoVars>>

\* ---- add_log as run by thread t: the append at `appending`, then the
\* ---- increment and the end of the `with` block at `counting`
LogAppendStep(t, at_label, next_label, src, msg) ==
    /\ t_pc[t] = at_label
    /\ logs' = RingAppend(logs, LogEntry(next_log_id, src, msg, <<>>))
    /\ Goto(t, next_label)
    /\ UNCHANGED <<lock, next_log_id>>

\* the end of add_log with the `with` block still open: what follows runs
\* with the lock held
LogCountStepKeepsLock(t, at_label, next_label) ==
    /\ t_pc[t] = at_label
    /\ next_log_id' = next_log_id + 1
    /\ lock' = lock
    /\ Goto(t, next_label)
    /\ UNCHANGED logs

LogCountStep(t, at_label, next_label) ==
    /\ t_pc[t] = at_label
    /\ next_log_id' = next_log_id + 1
    /\ lock' = "free"
    /\ Goto(t, next_label)
    /\ UNCHANGED logs

\* ---- bridge_loop, the receive half of a pass (lines 617-644)
ThreadBridge ==
    /\ UNCHANGED notThreads
    /\ UNCHANGED <<relayVars, status, qres, uart_rx_lines, uart_open>>
    /\ \/ \* the loop reaches select/recvfrom
          /\ t_pc["bridge"] = "top"
          /\ Goto("bridge", "recvfrom")
          /\ UNCHANGED <<lock, logs, next_log_id, last_rc_time, last_rc_sender,
                         packets_rx, packets_uart_tx>>
       \/ \* recvfrom returns a frame
          /\ t_pc["bridge"] = "recvfrom"
          /\ packets_rx < MaxThreadPackets
          /\ Goto("bridge", "rx_lock")
          /\ UNCHANGED <<lock, logs, next_log_id, last_rc_time, last_rc_sender,
                         packets_rx, packets_uart_tx>>
       \/ /\ Acquire("bridge", "rx_lock", "rx_update")
          /\ UNCHANGED <<logs, next_log_id, last_rc_time, last_rc_sender,
                         packets_rx, packets_uart_tx>>
       \/ \* lines 628-630 and the end of the `with` block
          /\ t_pc["bridge"] = "rx_update"
          /\ last_rc_time' = clock
          /\ \E a \in Senders : last_rc_sender' = a
          /\ packets_rx' = packets_rx + 1
          /\ lock' = "free"
          /\ Goto("bridge", "uart_write")
          /\ UNCHANGED <<logs, next_log_id, packets_uart_tx>>
       \/ \* uart_dev.write returns
          /\ t_pc["bridge"] = "uart_write"
          /\ Goto("bridge", "tx_lock")
          /\ UNCHANGED <<lock, logs, next_log_id, last_rc_time, last_rc_sender,
                         packets_rx, packets_uart_tx>>
       \/ /\ Acquire("bridge", "tx_lock", "tx_update")
          /\ UNCHANGED <<logs, next_log_id, last_rc_time, last_rc_sender,
                         packets_rx, packets_uart_tx>>
       \/ \* line 638, the end of the `with` block, and the test of line 642
          /\ t_pc["bridge"] = "tx_update"
          /\ packets_uart_tx' = packets_uart_tx + 1
          /\ lock' = "free"
          /\ Goto("bridge", IF packets_rx = 1 THEN "log_lock" ELSE "top")
          /\ UNCHANGED <<logs, next_log_id, last_rc_time, last_rc_sender, packets_rx>>
       \/ /\ Acquire("bridge", "log_lock", "appending")
          /\ UNCHANGED <<logs, next_log_id, last_rc_time, last_rc_sender,
                         packets_rx, packets_uart_tx>>
       \/ /\ LogAppendStep("bridge", "appending", "counting", "RC",
                           "First UDP frame from " \o last_rc_sender)
          /\ UNCHANGED <<last_rc_time, last_rc_sender, packets_rx, packets_uart_tx>>
       \/ /\ LogCountStep("bridge", "counting", "top")
          /\ UNCHANGED <<last_rc_time, last_rc_sender, packets_rx, packets_uart_tx>>

\* ---- SystemMonitor._monitor_loop (lines 459-475)
ThreadMonitor ==
    /\ UNCHANGED notThreads
    /\ UNCHANGED <<relayVars, status, qres, last_rc_time, last_rc_sender,
                   packets_rx, packets_uart_tx, uart_rx_lines, uart_open>>
    /\ \/ \* the loop reaches the vcgencmd and free subprocesses
          /\ t_pc["monitor"] = "top"
          /\ next_log_id <= MaxThreadLogs
          /\ Goto("monitor", "vcgencmd")
          /\ UNCHANGED <<lock, logs, next_log_id>>
       \/ \* they return; throttled is "OK" or a warning
          /\ t_pc["monitor"] = "vcgencmd"
          /\ \E warn \in BOOLEAN :
                Goto("monitor", IF warn THEN "warn_lock" ELSE "log_lock")
          /\ UNCHANGED <<lock, logs, next_log_id>>
       \/ /\ Acquire("monitor", "warn_lock", "warn_appending")
          /\ UNCHANGED <<logs, next_log_id>>
       \/ LogAppendStep("monitor", "warn_appending", "warn_counting", "SYS",
                        "POWER WARNING")
       \/ LogCountStep("monitor", "warn_counting", "log_lock")
       \/ /\ Acquire("monitor", "log_lock", "appending")
          /\ UNCHANGED <<logs, next_log_id>>
       \/ LogAppendStep("monitor", "appending", "counting", "SYS", "status")
       \/ LogCountStep("monitor", "counting", "sleep")
       \/ \* time.sleep(10) returns
          /\ t_pc["monitor"] = "sleep"
          /\ Goto("monitor", "top")
          /\ UNCHANGED <<lock, logs, next_log_id>>

\* ---- GET /api/status (lines 689-705)
ThreadStatus ==
    /\ UNCHANGED notThreads
    /\ UNCHANGED <<relayVars, telemetryVars, qres>>
    /\ \/ \* a request arrives: `with state.lock:`
          /\ status = <<>>
          /\ Acquire("status", "top", "last_age")
          /\ UNCHANGED status
       \/ \* line 692, then the payload starts with check_ethernet_up(...)
          /\ t_pc["status"] = "last_age"
          /\ Goto("status", "check_ethernet_up")
          /\ UNCHANGED <<lock, status>>
       \/ \* subprocess.run returns; the payload is built, the block ends
          /\ t_pc["status"] = "check_ethernet_up"
          /\ \E eth \in BOOLEAN :
                LET last_age == IF last_rc_time > 0 THEN clock - last_rc_time
                                ELSE NEVER_AGE_MS
                IN  status' = << [ethernet_up |-> eth,
                                  link_alive |-> last_age < LINK_ALIVE_MS,
                                  last_rc_age_ms |-> last_age,
                                  packets_rx |-> packets_rx,
                                  packets_uart_tx |-> packets_uart_tx,
                                  uart_rx_lines |-> uart_rx_lines,
                                  uart_open |-> uart_open,
                                  last_rc_sender |-> last_rc_sender,
                                  blink_active |-> blink_active,
                                  relay_state |-> relay_state] >>
          /\ lock' = "free"
          /\ Goto("status", "respond")
       \/ \* jsonify(payload) is sent
          /\ t_pc["status"] = "respond"
          /\ status' = <<>>
          /\ Goto("status", "top")
          /\ UNCHANGED lock

\* ---- GET /api/logs (lines 707-713, 449-451)
ThreadLogs ==
    /\ UNCHANGED notThreads
    /\ UNCHANGED <<relayVars, telemetryVars, status>>
    /\ \/ \* a request arrives: get_logs_since enters `with self.lock:`
          /\ Acquire("logs", "top", "reading")
          /\ qres' = <<>>
       \/ \* the list is built and the block ends
          /\ t_pc["logs"] = "reading"
          /\ \E param \in {Number(0), Number(1), NotANumber} :
                LET since == ParseSince(param)
                IN  qres' = << [since |-> since,
                                logs |-> get_logs_since(logs, since)] >>
          /\ lock' = "free"
          /\ Goto("logs", "top")

\* ---- GpioController._update_loop, its two `with self.state.lock:` blocks
\* ---- (lines 553-555 and 568-569)
ThreadArbiter ==
    /\ UNCHANGED <<codecVars, readerVars, clock, bridgeVars, extractorVars>>
    /\ UNCHANGED <<telemetryVars, status, qres, mainVars, pollVars, senderVars, serialVars, servoVars>>
    /\ UNCHANGED <<gpio_available, a_pc, blink_state, last_blink_time, pin,
                   flip_gaps, momentary_active, blink_active>>
    /\ \/ /\ Acquire("arbiter", "top", "sample")
          /\ UNCHANGED <<momentary, blinking, target_high, relay_state>>
       \/ /\ t_pc["arbiter"] = "sample"
          /\ momentary' = momentary_active
          /\ blinking' = blink_active
          /\ lock' = "free"
          /\ Goto("arbiter", "resolve")
          /\ UNCHANGED <<target_high, relay_state>>
       \/ /\ t_pc["arbiter"] = "resolve"
          /\ target_high' = Resolve(momentary, blinking, blink_state)
          /\ Goto("arbiter", "publish_lock")
          /\ UNCHANGED <<lock, momentary, blinking, relay_state>>
       \/ /\ Acquire("arbiter", "publish_lock", "publish")
          /\ UNCHANGED <<momentary, blinking, target_high, relay_state>>
       \/ /\ t_pc["arbiter"] = "publish"
          /\ relay_state' = target_high
          /\ lock' = "free"
          /\ Goto("arbiter", "sleep")
          /\ UNCHANGED <<momentary, blinking, target_high>>
       \/ \* time.sleep(0.05) returns
          /\ t_pc["arbiter"] = "sleep"
          /\ Goto("arbiter", "top")
          /\ UNCHANGED <<lock, momentary, blinking, target_high, relay_state>>

\* ---- POST /api/gpio/momentary and POST /api/gpio/blink as threads: the
\* ---- `with self.state.lock:` block of set_momentary and of set_blink
HandlerMomentary == CanAcquire("momentary") /\ gpio_momentary

HandlerBlink == CanAcquire("blink") /\ gpio_blink

---------------------------------------------------------------------------
(* ByteStreamFrameExtractor                                                *)

\* the two-byte start and end markers of a frame
SOI == <<255, 216>>

EOI == <<255, 217>>

\* SOI + payload + EOI
make_jpeg(payload) == SOI \o payload \o EOI

\* the least offset i >= from at which marker m lies in b, 0 for none
Find(b, m, from) ==
    LET hits == {i \in from..(Len(b) - 1) : b[i] = m[1] /\ b[i + 1] = m[2]}
    IN  IF hits = {} THEN 0 ELSE CHOOSE i \in hits : \A j \in hits : i <= j

\* the scan that records the first complete frame of the buffer, not the last
RECURSIVE ScanKeepsFirst(_)
ScanKeepsFirst(st) ==
    LET start == Find(st.buf, SOI, 1)
        end == Find(st.buf, EOI, start + 2)
    IN  IF start = 0 THEN [st EXCEPT !.buf = <<>>]
        ELSE IF end = 0
             THEN [st EXCEPT !.buf = SubSeq(st.buf, start, Len(st.buf))]
             ELSE ScanKeepsFirst(
                      [buf |-> SubSeq(st.buf, end + 2, Len(st.buf)),
                       latest |-> IF st.fresh THEN st.latest
                                  ELSE <<SubSeq(st.buf, start, end + 1)>>,
                       fresh |-> TRUE])

\* the scan that stops at a 0xFF followed by any marker byte but 0xD8
RECURSIVE ScanEndsAtAnyMarker(_)
ScanEndsAtAnyMarker(st) ==
    LET start == Find(st.buf, SOI, 1)
        ends == {i \in (start + 2)..(Len(st.buf) - 1) :
                    st.buf[i] = 255 /\ st.buf[i + 1] \notin {216, 255}}
        end == IF start = 0 \/ ends = {} THEN 0
               ELSE CHOOSE i \in ends : \A j \in ends : i <= j
    IN  IF start = 0 THEN [st EXCEPT !.buf = <<>>]
        ELSE IF end = 0
             THEN [st EXCEPT !.buf = SubSeq(st.buf, start, Len(st.buf))]
             ELSE ScanEndsAtAnyMarker(
                      [buf |-> SubSeq(st.buf, end + 2, Len(st.buf)),
                       latest |-> <<SubSeq(st.buf, start, end + 1)>>,
                       fresh |-> TRUE])

\* the scan that discards the buffer when the end marker is absent
RECURSIVE ScanDropsPartial(_)
ScanDropsPartial(st) ==
    LET start == Find(st.buf, SOI, 1)
        end == Find(st.buf, EOI, start + 2)
    IN  IF start = 0 \/ end = 0 THEN [st EXCEPT !.buf = <<>>]
        ELSE ScanDropsPartial(
                 [buf |-> SubSeq(st.buf, end + 2, Len(st.buf)),
                  latest |-> <<SubSeq(st.buf, start, end + 1)>>,
                  fresh |-> TRUE])

\* the scan that takes the frame from the start of the buffer, not from the
\* start marker
RECURSIVE ScanFromBufferStart(_)
ScanFromBufferStart(st) ==
    LET start == Find(st.buf, SOI, 1)
        end == Find(st.buf, EOI, start + 2)
    IN  IF start = 0 THEN [st EXCEPT !.buf = <<>>]
        ELSE IF end = 0
             THEN [st EXCEPT !.buf = SubSeq(st.buf, start, Len(st.buf))]
             ELSE ScanFromBufferStart(
                      [buf |-> SubSeq(st.buf, end + 2, Len(st.buf)),
                       latest |-> <<SubSeq(st.buf, 1, end + 1)>>,
                       fresh |-> TRUE])

\* the scan of the buffer on st = [buf, latest, fresh]: search for the start
\* marker; none: discard the buffer; found: search for the end marker after
\* it; absent: keep from the start marker on and stop; present: record the
\* span as the newest result, discard the consumed bytes and scan on
RECURSIVE Scan(_)
Scan(st) ==
    LET start == Find(st.buf, SOI, 1)
        end == Find(st.buf, EOI, start + 2)
    IN  IF start = 0 THEN [st EXCEPT !.buf = <<>>]
        ELSE IF end = 0
             THEN [st EXCEPT !.buf = SubSeq(st.buf, start, Len(st.buf))]
             ELSE Scan([buf |-> SubSeq(st.buf, end + 2, Len(st.buf)),
                        latest |-> <<SubSeq(st.buf, start, end + 1)>>,
                        fresh |-> TRUE])

\* one chunk read: append, scan, and reset a buffer that has grown past the
\* ceiling without resolving a frame
FeedChunk(buf, latest, chunk) ==
    LET st == Scan([buf |-> buf \o chunk, latest |-> latest, fresh |-> FALSE])
    IN  IF ~st.fresh /\ Len(st.buf) > BUFFER_CEILING
        THEN [st EXCEPT !.buf = <<>>]
        ELSE st

\* the payloads a frame may carry: none of them holds the end marker
XPayloads ==
    {<<>>, <<1>>, <<170, 187>>, <<255>>, <<255, 0, 255, 218, 1>>, <<255, 216, 217>>}

\* the bytes that may precede the first frame: none of them holds the start
\* marker
XGarbage ==
    {<<>>, <<0, 17>>, <<255>>, <<216>>, <<255, 217>>, <<255, 255>>}

\* the sequences of 1..n payloads
RECURSIVE PayloadSeqs(_)
PayloadSeqs(n) ==
    IF n = 0 THEN {<<>>}
    ELSE LET shorter == PayloadSeqs(n - 1)
         IN  shorter \cup {Append(q, p) : q \in shorter, p \in XPayloads}

\* the frames of a stream, end to end
RECURSIVE Frames(_)
Frames(payloads) ==
    IF payloads = <<>> THEN <<>>
    ELSE make_jpeg(Head(payloads)) \o Frames(Tail(payloads))

\* the bytes of the stream
StreamBytes == xstream.garbage \o Frames(xstream.payloads)

\* the offset the chunks fed so far reach
Fed == IF xcuts = <<>> THEN 0 ELSE xcuts[Len(xcuts)]

ExtractorIdle ==
    /\ xstream = [garbage |-> <<>>, payloads |-> <<>>]
    /\ xcuts = <<>>
    /\ xbuf = <<>>
    /\ xlatest = <<>>

ExtractorInit ==
    /\ \E g \in XGarbage, ps \in PayloadSeqs(MaxFrames) \ {<<>>} :
          xstream = [garbage |-> g, payloads |-> ps]
    /\ xcuts = <<>>
    /\ xbuf = <<>>
    /\ xlatest = <<>>

\* the source hands over the next chunk, of any length; the last of the
\* MaxFeedChunks chunks takes what is left
XFeed ==
    /\ UNCHANGED notExtractor
    /\ Len(xcuts) < MaxFeedChunks
    /\ \E e \in (Fed + 1)..Len(StreamBytes) :
          /\ Len(xcuts) = MaxFeedChunks - 1 => e = Len(StreamBytes)
          /\ LET st == FeedChunk(xbuf, xlatest, SubSeq(StreamBytes, Fed + 1, e))
             IN  /\ xbuf' = st.buf
                 /\ xlatest' = st.latest
          /\ xcuts' = Append(xcuts, e)
    /\ UNCHANGED xstream

---------------------------------------------------------------------------
(* Specifications                                                          *)

\* the relay flags and the arbiter at rest
ArbiterUnused ==
    /\ RelayInit
    /\ gpio_available = FALSE
    /\ ArbiterIdle

\* the bridge, the telemetry, the queries and the threads at rest
BridgeUnused ==
    /\ TelemetryInit
    /\ BridgeIdle
    /\ status = <<>>
    /\ qres = <<>>
    /\ ThreadsIdle
    /\ MainIdle

\* bridge_loop with the status query: the state after SharedState() is built
\* and the bridge thread is started
Init ==
    /\ clock = BridgeStartClock
    /\ TelemetryInit
    /\ BridgeIdle
    /\ status = <<>>
    /\ qres = <<>>
    /\ ThreadsIdle
    /\ MainIdle
    /\ ArbiterUnused
    /\ CodecUnused
    /\ ExtractorIdle
    /\ ReaderIdle
    /\ SerialIdle
    /\ SenderIdle
    /\ PollIdle
    /\ ServoInit

Next ==
    \/ BridgeBind
    \/ BridgeUartSetup
    \/ BridgeRecv
    \/ BridgeForward
    \/ BridgeRxLog
    \/ BridgeUartRead
    \/ BridgeLiveness
    \/ Tick
    \/ api_status

Spec == Init /\ [][Next]_vars

InitCodec ==
    /\ clock = StartClock
    /\ CodecInit
    /\ ExtractorIdle
    /\ ReaderIdle
    /\ ArbiterUnused
    /\ BridgeUnused
    /\ SerialIdle
    /\ SenderIdle
    /\ PollIdle
    /\ ServoInit

NextCodec ==
    \/ CodecEncode
    \/ CodecMutate
    \/ CodecResize
    \/ CodecReseal
    \/ CodecDecode

SpecCodec == InitCodec /\ [][NextCodec]_vars

InitReader ==
    /\ clock = StartClock
    /\ ReaderInit
    /\ CodecUnused
    /\ ExtractorIdle
    /\ ArbiterUnused
    /\ BridgeUnused
    /\ SerialIdle
    /\ SenderIdle
    /\ PollIdle
    /\ ServoInit

\* read_ibus_frame, one serial read per step
NextReader ==
    \/ ReaderFirst
    \/ ReaderSecond
    \/ ReaderThird
    \/ ReaderRest

SpecReader == InitReader /\ [][NextReader]_vars

InitSender ==
    /\ clock = StartClock
    /\ SenderInit
    /\ CodecUnused
    /\ ExtractorIdle
    /\ ArbiterUnused
    /\ BridgeUnused
    /\ SerialIdle
    /\ PollIdle
    /\ ServoInit

\* the inner loop of main: read_ibus_frame one serial read per step, the
\* rest of a pass in one step, and time passing
NextSender ==
    \/ ReaderFirst
    \/ ReaderSecond
    \/ ReaderThird
    \/ ReaderRest
    \/ SenderWait
    \/ SenderPass

SpecSender == InitSender /\ [][NextSender]_vars

InitArbiter ==
    /\ clock = StartClock
    /\ RelayInit
    /\ ArbiterInit
    /\ CodecUnused
    /\ ExtractorIdle
    /\ ReaderIdle
    /\ BridgeUnused
    /\ SerialIdle
    /\ SenderIdle
    /\ PollIdle
    /\ ServoInit

\* GpioController._update_loop and the two request handlers
NextArbiter ==
    \/ ArbBlink
    \/ ArbSample
    \/ ArbResolve
    \/ ArbPublish
    \/ ArbSleep
    \/ gpio_momentary
    \/ gpio_blink

SpecArbiter == InitArbiter /\ [][NextArbiter]_vars

\* the log ring under a run of appends and queries
InitRing ==
    /\ clock = StartClock
    /\ TelemetryInit
    /\ qres = <<>>
    /\ BridgeIdle
    /\ status = <<>>
    /\ ThreadsIdle
    /\ MainIdle
    /\ ArbiterUnused
    /\ CodecUnused
    /\ ExtractorIdle
    /\ ReaderIdle
    /\ SerialIdle
    /\ SenderIdle
    /\ PollIdle
    /\ ServoInit

NextRing ==
    \/ RingAddLog
    \/ api_logs

SpecRing == InitRing /\ [][NextRing]_vars

InitPoll ==
    /\ clock = StartClock
    /\ TelemetryInit
    /\ qres = <<>>
    /\ BridgeIdle
    /\ status = <<>>
    /\ ThreadsIdle
    /\ MainIdle
    /\ ArbiterUnused
    /\ CodecUnused
    /\ ExtractorIdle
    /\ ReaderIdle
    /\ PollIdle
    /\ SerialIdle
    /\ SenderIdle
    /\ ServoInit

\* the log ring, and one dashboard page polling it
NextPoll ==
    \/ RingBurst
    \/ PollSend
    \/ PollServe
    \/ PollReceive

SpecPoll == InitPoll /\ [][NextPoll]_vars

\* the threads main() starts, and two request handlers, on one SharedState
InitThreads ==
    /\ clock = StartClock
    /\ TelemetryInit
    /\ qres = <<>>
    /\ BridgeIdle
    /\ status = <<>>
    /\ ThreadsIdle
    /\ MainIdle
    /\ ArbiterUnused
    /\ CodecUnused
    /\ ExtractorIdle
    /\ ReaderIdle
    /\ SerialIdle
    /\ SenderIdle
    /\ PollIdle
    /\ ServoInit

NextThreads ==
    \/ ThreadBridge
    \/ ThreadMonitor
    \/ ThreadStatus
    \/ ThreadLogs
    \/ ThreadArbiter

SpecThreads == InitThreads /\ [][NextThreads]_vars

\* the threads that take SharedState.lock in the bridge, the arbiter and the
\* two GET handlers
NextLocking ==
    \/ ThreadBridge
    \/ ThreadStatus
    \/ ThreadLogs
    \/ ThreadArbiter

\* the scheduler lets every thread run, and the calls that wait return
SpecLocking ==
    /\ InitThreads
    /\ [][NextLocking]_vars
    /\ WF_vars(ThreadBridge)
    /\ WF_vars(ThreadStatus)
    /\ WF_vars(ThreadLogs)
    /\ WF_vars(ThreadArbiter)

\* the threads main() starts, and main leaving app.run
InitShutdown ==
    /\ clock = StartClock
    /\ TelemetryInit
    /\ qres = <<>>
    /\ BridgeIdle
    /\ status = <<>>
    /\ ThreadsIdle
    /\ MainIdle
    /\ ArbiterUnused
    /\ CodecUnused
    /\ ExtractorIdle
    /\ ReaderIdle
    /\ SerialIdle
    /\ SenderIdle
    /\ PollIdle
    /\ ServoInit

NextShutdown ==
    \/ ThreadBridge
    \/ ThreadMonitor
    \/ ThreadArbiter
    \/ MainCleanup

SpecShutdown == InitShutdown /\ [][NextShutdown]_vars

\* the servo outputs under a run of servo requests
InitServo ==
    /\ clock = StartClock
    /\ RelayInit
    /\ ArbiterInit
    /\ SerialIdle
    /\ SenderIdle
    /\ PollIdle
    /\ ServoInit
    /\ MainIdle
    /\ TelemetryInit
    /\ BridgeIdle
    /\ status = <<>>
    /\ qres = <<>>
    /\ ThreadsIdle
    /\ CodecUnused
    /\ ExtractorIdle
    /\ ReaderIdle

NextServo == servo_route

SpecServo == InitServo /\ [][NextServo]_vars

\* the bridge and arbiter threads and the four request handlers on one
\* SharedState
NextOwners ==
    \/ ThreadBridge
    \/ ThreadArbiter
    \/ ThreadStatus
    \/ ThreadLogs
    \/ HandlerMomentary
    \/ HandlerBlink

SpecOwners == InitThreads /\ [][NextOwners]_vars

\* the serial read loop on a stream read in pieces, the port open
InitSerial ==
    /\ clock = BridgeStartClock
    /\ TelemetryInit
    /\ BridgeIdle
    /\ status = <<>>
    /\ qres = <<>>
    /\ ThreadsIdle
    /\ MainIdle
    /\ ArbiterUnused
    /\ CodecUnused
    /\ ExtractorIdle
    /\ ReaderIdle
    /\ SerialInit
    /\ SenderIdle
    /\ PollIdle
    /\ ServoInit

NextSerial == SerialRead

SpecSerial == InitSerial /\ [][NextSerial]_vars

\* the extractor fed a stream of garbage and frames in chunks
InitExtractor ==
    /\ clock = StartClock
    /\ ExtractorInit
    /\ CodecUnused
    /\ ReaderIdle
    /\ ArbiterUnused
    /\ BridgeUnused
    /\ SerialIdle
    /\ SenderIdle
    /\ PollIdle
    /\ ServoInit

NextExtractor == XFeed

SpecExtractor == InitExtractor /\ [][NextExtractor]_vars

---------------------------------------------------------------------------
(* Codec claims                                                            *)

\* the checksum invariant of the data model, stated over byte offsets
ChecksumHolds(b) ==
    LET total == SumBytes([k \in 1..30 |-> b[k]])
    IN  b[31] + 256 * b[32] = (65535 - total) % 65536

WellFormed(b) ==
    /\ Len(b) = 32
    /\ b[1] = 32
    /\ b[2] = 64
    /\ ChecksumHolds(b)

\* C4: parse_ibus_frame returns a channel list exactly when the input has
\* length 32, starts with 0x20 0x40 and its last two bytes, little-endian,
\* equal (0xFFFF - sum(bytes[0:30])) mod 0x10000; otherwise it returns None.
\* A returned list is the 14 little-endian 16-bit values at offsets 2..29,
\* whatever their range.
C4_DecodeExactlyWellFormed ==
    cstage = "decoded" =>
        /\ (cres # None) <=> WellFormed(cbuf)
        /\ cres # None =>
              /\ Len(cres) = 14
              /\ \A i \in 0..13 : cres[i + 1] = cbuf[2 * i + 3] + 256 * cbuf[2 * i + 4]

\* a frame outside the encoded set (one byte changed, checksum recomputed)
\* was accepted, with a channel value outside [1000, 2000]
C4_Witness ==
    /\ cstage = "decoded"
    /\ cmut = 1
    /\ cres # None
    /\ \E i \in 1..14 : cres[i] > 2000

\* C5: changing any one byte at offsets 0..29 of a valid frame to a different
\* value, with bytes 30..31 left as they were, makes parse_ibus_frame return
\* None.
C5_SingleByteMutationRejected ==
    (cstage = "decoded" /\ cprevalid /\ cpos \in 0..29) => cres = None

\* a channel byte (not a header byte) of a valid frame was changed and the
\* result decoded
C5_Witness ==
    /\ cstage = "decoded"
    /\ cprevalid
    /\ cpos \in 2..29
    /\ cres = None

\* C6: for every ControlFrame f, encode(f) has 32 bytes, parse_ibus_frame
\* accepts it, and parse_ibus_frame(encode(f)) = f.
C6_RoundTrip ==
    (cstage = "decoded" /\ cmut = 0 /\ cbuf # <<>>) =>
        /\ Len(cbuf) = 32
        /\ cres # None
        /\ cres = cframe

\* an encoded frame with channels at both ends of the 16-bit range decoded
C6_Witness ==
    /\ cstage = "decoded"
    /\ cmut = 0
    /\ cbuf # <<>>
    /\ cres = cframe
    /\ \E i, j \in 1..14 : cframe[i] = 0 /\ cframe[j] = 65535

---------------------------------------------------------------------------
(* Frame synchronisation claims                                            *)

\* the frame that starts at the last 0x20 of the run
FrameAtStart == SubSeq(rstream, rstart, rstart + 31)

\* length of the run of 0x20 bytes that ends at rstart
RECURSIVE RunBack(_)
RunBack(i) == IF i >= 1 /\ rstream[i] = 32 THEN 1 + RunBack(i - 1) ELSE 0

RunLength == RunBack(rstart)

\* C7: for every k >= 1, when the stream holds a run of k bytes 0x20, then
\* 0x40, then 30 further bytes delivered without timeout, read_ibus_frame
\* returns the 32-byte frame that starts at the last 0x20 of the run.
C7_SyncOnLastHeaderByte ==
    (rpc = "done" /\ ~rearly) => rret = FrameAtStart

\* The same for the runs the scanner does handle: a run whose length is not a
\* multiple of three.
C7_SyncWhenRunNotMultipleOfThree ==
    (rpc = "done" /\ ~rearly /\ RunLength % 3 # 0) => rret = FrameAtStart

C7_WitnessRunOfTwo ==
    /\ rpc = "done"
    /\ ~rearly
    /\ RunLength = 2
    /\ rret = FrameAtStart

---------------------------------------------------------------------------
(* Arbiter claims                                                          *)

\* the tick has resolved its level from the flags it sampled
Resolved == a_pc \in {"publish", "sleep"}

\* C8: a tick whose sampled requests are momentary active and blink enabled
\* resolves the level high, writes high to the pin and publishes high as
\* relay_state, whatever the blink phase.
C8_MomentaryOverridesBlink ==
    (Resolved /\ momentary /\ blinking) =>
        /\ target_high
        /\ gpio_available => pin
        /\ a_pc = "sleep" => relay_state

\* both requests were active on a tick whose blink phase was low, and the
\* published level is high
C8_Witness ==
    /\ a_pc = "sleep"
    /\ momentary /\ blinking
    /\ momentary_active /\ blink_active
    /\ ~blink_state
    /\ relay_state
    /\ gpio_available /\ pin

\* C9: on a tick whose sampled momentary request is inactive, the level
\* written and published equals the blink phase if blink is enabled and is
\* low if it is disabled; and both flags a tick uses are read in the one step
\* that holds the lock, from the same state.
C9_LevelFollowsBlinkPhase ==
    /\ [](( Resolved /\ ~momentary) =>
            /\ target_high = (IF blinking THEN blink_state ELSE FALSE)
            /\ gpio_available => pin = target_high
            /\ a_pc = "sleep" => relay_state = target_high)
    /\ [][(a_pc = "sample" /\ a_pc' = "resolve") =>
            (momentary' = momentary_active /\ blinking' = blink_active)]_vars

\* blink enabled, momentary inactive, phase high: the published level is high
C9_Witness ==
    /\ a_pc = "sleep"
    /\ ~momentary /\ blinking
    /\ blink_state
    /\ relay_state
    /\ pin

\* C10: the blink phase flips every 0.5 s of wall-clock time, so that with
\* blink enabled and momentary inactive the level has period 1.0 s, whatever
\* the arbiter's update rate.
C10_BlinkFlipsEveryHalfSecond ==
    \A i \in 1..Len(flip_gaps) : flip_gaps[i] = BLINK_INTERVAL_MS

\* What the loop does guarantee: a phase lasts longer than 0.5 s and at most
\* 0.5 s plus one pass of the loop.
C10_PhaseLastsHalfSecondPlusUpToOneTick ==
    \A i \in 1..Len(flip_gaps) :
        /\ flip_gaps[i] > BLINK_INTERVAL_MS
        /\ flip_gaps[i] <= BLINK_INTERVAL_MS + UPDATE_SLEEP_MS + SleepOverrunMs

---------------------------------------------------------------------------
(* bridge_loop: what reaches the serial port and what counts as received   *)

\* the pass has read a datagram and is past the receive step
HoldsDatagram == b_pc \in {"forward", "rxlog"} /\ data # <<>>

\* C1: every byte string the bridge has written to the serial port in a pass
\* passes the checksum test, i.e. its last two bytes are
\* (0xFFFF - sum(bytes[0:30])) mod 0x10000.
C1_OnlyChecksumValidWritten ==
    \A i \in 1..Len(uart_written) :
        /\ Len(uart_written[i]) = IBUS_FRAME_LEN
        /\ ChecksumHolds(uart_written[i])

\* what line 634 does guarantee: every byte string written in a pass is 32
\* bytes long and starts with 0x20 0x40
C1_OnlyHeaderAndLengthChecked ==
    \A i \in 1..Len(uart_written) :
        /\ Len(uart_written[i]) = IBUS_FRAME_LEN
        /\ Prefix(uart_written[i], 2) = IBUS_HEADER

\* C2: every byte string written to the serial port in a pass is, byte for
\* byte, the datagram received in that pass and is exactly 32 bytes long; a
\* pass that received no datagram has written nothing, whatever the age of
\* the last datagram; and a step that changes the written strings appends
\* the pass's datagram and nothing else.
C2_WritesAreTheReceivedDatagram ==
    /\ [](/\ \A i \in 1..Len(uart_written) :
                /\ uart_written[i] = data
                /\ Len(uart_written[i]) = IBUS_FRAME_LEN
          /\ Len(uart_written) <= 1
          /\ (data = <<>> => uart_written = <<>>))
    /\ [][uart_written' # uart_written =>
             \/ uart_written' = <<>>
             \/ /\ uart_written' = Append(uart_written, data)
                /\ data' = data
                /\ packets_uart_tx' = packets_uart_tx + 1]_vars

\* a pass has received a frame and has written it to the serial port
C2_Witness ==
    /\ b_pc = "rxlog"
    /\ uart_written = <<data>>
    /\ data \in {GoodFrame, OtherGoodFrame}
    /\ packets_uart_tx = 1

\* a pass that received nothing while the signal was lost reaches the
\* liveness test with nothing written
C2_WitnessSignalLost ==
    /\ b_pc = "live"
    /\ data = <<>>
    /\ last_rx_time # 0
    /\ clock - last_rx_time > FAILSAFE_MS
    /\ uart_written = <<>>

\* C3: a receive step whose datagram does not decode as a frame (length 32,
\* header, checksum) leaves packets_rx, last_rx_time, last_rc_time and
\* last_rc_sender as they were.
C3_OnlyValidFramesCount ==
    [][(b_pc = "select" /\ parse_ibus_frame(data') = None) =>
           /\ packets_rx' = packets_rx
           /\ last_rx_time' = last_rx_time
           /\ last_rc_time' = last_rc_time
           /\ last_rc_sender' = last_rc_sender]_vars

\* C3, as the status query shows it: link_alive is reported only when the
\* datagram the age is measured from decoded as a frame
C3_LinkUpOnlyAfterValidFrame ==
    [][(b_pc = "select" /\ data' # <<>> /\ parse_ibus_frame(data') = None) =>
           ~(clock - last_rc_time' < LINK_ALIVE_MS)]_vars

\* what lines 621-630 do: a receive step counts every non-empty datagram and
\* only those
C3_EveryNonEmptyDatagramCounts ==
    [][b_pc = "select" =>
           IF data' # <<>>
           THEN /\ packets_rx' = packets_rx + 1
                /\ last_rx_time' = clock
                /\ last_rc_time' = clock
                /\ last_rc_sender' = sender'
           ELSE /\ packets_rx' = packets_rx
                /\ last_rx_time' = last_rx_time
                /\ last_rc_time' = last_rc_time
                /\ last_rc_sender' = last_rc_sender]_vars

---------------------------------------------------------------------------
(* bridge_loop: the rate-limited liveness entries                          *)

IsWaiting(e) == e.msg = "Waiting for first RC frame from PC sender..."

IsSignalLost(e) == e.msg = "RC signal lost - sent NO_SIGNAL to ESP32"

\* the 5-second window an instant in milliseconds falls in
Window(t) == t \div 5000

\* the entries a step appends
Appended(before_id, after) ==
    {after[i] : i \in {k \in 1..Len(after) : after[k].id >= before_id}}

\* C11: no two "waiting" entries of the log were appended in the same
\* 5-second window, however many passes of the loop ran in it; and a step
\* taken after a datagram has been counted appends no "waiting" entry.
C11_WaitingOncePerBucket ==
    /\ [](\A i, j \in 1..Len(logs) :
             (i < j /\ IsWaiting(logs[i]) /\ IsWaiting(logs[j]))
                 => Window(logs[i].at) # Window(logs[j].at))
    /\ [][packets_rx > 0 =>
             \A e \in Appended(next_log_id, logs') : ~IsWaiting(e)]_vars

\* the bridge has waited through two windows and logged "waiting" in each,
\* the first of them having seen a later pass
C11_Witness ==
    /\ packets_rx = 0
    /\ \E i, j \in 1..Len(logs) :
          /\ i < j
          /\ IsWaiting(logs[i])
          /\ IsWaiting(logs[j])
          /\ logs[j].at - logs[i].at > TimeStepMs

\* the liveness test of a pass is being taken
LivenessStep == b_pc = "live" /\ b_pc' = "select"

\* no two "signal lost" entries share a 5-second window
LostOncePerWindow ==
    \A i, j \in 1..Len(logs) :
        (i < j /\ IsSignalLost(logs[i]) /\ IsSignalLost(logs[j]))
            => Window(logs[i].at) # Window(logs[j].at)

\* a step appends "signal lost" only when the last datagram is more than
\* 500 ms old
LostNeverEarly ==
    (\E e \in Appended(next_log_id, logs') : IsSignalLost(e))
        => (packets_rx > 0 /\ clock - last_rc_time > 500)

\* the loss that is running has been reported in the window of this instant
LossReportedInWindow ==
    \E i \in 1..Len(logs) :
        /\ IsSignalLost(logs[i])
        /\ logs[i].at > last_rc_time
        /\ Window(logs[i].at) = Window(clock)

\* C12: a liveness test taken more than 500 ms after the last datagram
\* appends a "signal lost" entry unless this loss was already reported in the
\* current 5-second window; no "signal lost" entry is appended while the age
\* is at most 500 ms; and no two such entries share a window.
C12_SignalLostLogged ==
    /\ []LostOncePerWindow
    /\ [][LostNeverEarly]_vars
    /\ [][(/\ LivenessStep
           /\ packets_rx > 0
           /\ clock - last_rc_time > 500
           /\ ~LossReportedInWindow)
              => \E e \in Appended(next_log_id, logs') : IsSignalLost(e)]_vars

\* the two parts of C12 that limit the entries: never early, once per window
C12_NeverEarlyOncePerWindow ==
    /\ []LostOncePerWindow
    /\ [][LostNeverEarly]_vars

\* what lines 671-678 do: the late liveness test appends "signal lost"
\* exactly when neither a "waiting" nor a "signal lost" entry was appended
\* in the current 5-second window
C12_LoggedWhenWindowUnused ==
    [][(LivenessStep /\ packets_rx > 0 /\ clock - last_rc_time > 500)
          => ((\E e \in Appended(next_log_id, logs') : IsSignalLost(e))
                 <=> ~\E i \in 1..Len(logs) :
                         /\ IsWaiting(logs[i]) \/ IsSignalLost(logs[i])
                         /\ Window(logs[i].at) = Window(clock))]_vars

---------------------------------------------------------------------------
(* The log ring and its query                                              *)

\* the answer of the query that has just run
Answer == qres[1].logs

\* C13: once 1000 + k entries have been appended (k >= 0), a "since 0" query
\* returns exactly 1000 entries, and they are the entries with ids
\* k+1 .. 1000+k in that order.
C13_RingKeepsNewestThousand ==
    (qres # <<>> /\ qres[1].since = 0 /\ next_log_id > 1000) =>
        /\ Len(Answer) = 1000
        /\ \A i \in 1..Len(Answer) : Answer[i].id = (next_log_id - 1 - 1000) + i

\* 1002 entries were appended and a "since 0" query has answered
C13_Witness ==
    /\ qres # <<>>
    /\ qres[1].since = 0
    /\ next_log_id = 1003
    /\ Answer[1].id = 3

\* C14: the answer to a query with cursor c is the retained entries with
\* id > c, in the ring's order and with ascending ids: every entry of the
\* answer has id > c, the answer is the tail of the ring of its length, and
\* every retained entry before that tail has id <= c (so the answer is empty
\* exactly when no retained entry has id > c). The query changes neither the
\* ring nor next_log_id.
C14_QueryReturnsEntriesAfterCursor ==
    /\ [](qres # <<>> =>
            LET c == qres[1].since
                n == Len(Answer)
                m == Len(logs)
            IN  /\ n <= m
                /\ \A j \in 1..n : Answer[j] = logs[m - n + j] /\ Answer[j].id > c
                /\ \A j \in 1..(n - 1) : Answer[j].id < Answer[j + 1].id
                /\ \A i \in 1..(m - n) : logs[i].id <= c)
    /\ [][qres' # <<>> => (logs' = logs /\ next_log_id' = next_log_id)]_vars

\* a query whose cursor is the id before the newest one has answered with
\* the newest entry alone, in a ring that has evicted entries
C14_Witness ==
    /\ qres # <<>>
    /\ next_log_id > 1001
    /\ qres[1].since = next_log_id - 2
    /\ Len(Answer) = 1
    /\ Answer[1].id = next_log_id - 1

\* a query whose cursor is at or past the newest id has answered with the
\* empty list
C14_WitnessEmpty ==
    /\ qres # <<>>
    /\ logs # <<>>
    /\ qres[1].since >= next_log_id - 1
    /\ Answer = <<>>

---------------------------------------------------------------------------
(* SharedState.lock                                                        *)

\* C15: the thread that holds SharedState.lock is never inside a socket,
\* serial, subprocess or sleep call.
C15_NoBlockingCallUnderLock ==
    \A t \in Threads : lock = t => t_pc[t] \notin BlockingCalls

\* C15 for every thread but the status handler
C15_OnlyStatusBlocksUnderLock ==
    \A t \in Threads \ {"status"} : lock = t => t_pc[t] \notin BlockingCalls

\* C16: with the bridge and the monitor appending and a handler querying, the
\* ring's ids are 1, 2, 3, ... with none repeated and none skipped, in
\* strictly increasing order, at all times; and a query reads the ring only
\* when no append is half done, i.e. when the newest id is next_log_id - 1.
C16_ConcurrentAppendsKeepIdsInStep ==
    /\ [](/\ logs # <<>> => logs[1].id = 1
          /\ \A i \in 1..(Len(logs) - 1) : logs[i + 1].id = logs[i].id + 1)
    /\ [][(t_pc["logs"] = "reading" /\ qres' # <<>>) =>
             /\ Len(logs) = next_log_id - 1
             /\ \A i \in 1..Len(logs) : logs[i].id < next_log_id]_vars

\* both threads have appended, one is waiting for the lock while the other
\* appends, and the query has answered with both kinds of entry
C16_Witness ==
    /\ qres # <<>>
    /\ \E i, j \in 1..Len(qres[1].logs) :
          qres[1].logs[i].src = "RC" /\ qres[1].logs[j].src = "SYS"
    /\ lock = "monitor"
    /\ t_pc["monitor"] \in {"appending", "counting", "warn_appending", "warn_counting"}
    /\ t_pc["logs"] = "top"

---------------------------------------------------------------------------
(* ByteStreamFrameExtractor claims                                         *)

\* the stream offsets of the first and the last byte of the k-th frame
FrameStart(k) ==
    Len(xstream.garbage) + Len(Frames(SubSeq(xstream.payloads, 1, k - 1))) + 1

FrameEnd(k) ==
    Len(xstream.garbage) + Len(Frames(SubSeq(xstream.payloads, 1, k)))

Frame(k) == make_jpeg(xstream.payloads[k])

\* the offset before the chunk fed last
ChunkStart == IF Len(xcuts) <= 1 THEN 0 ELSE xcuts[Len(xcuts) - 1]

\* the frames that lie wholly inside the chunk fed last
InLastChunk ==
    {k \in 1..Len(xstream.payloads) : FrameStart(k) > ChunkStart /\ FrameEnd(k) <= Fed}

Last(S) == CHOOSE k \in S : \A j \in S : j <= k

\* no chunk so far ends between the two bytes of the first frame's start
\* marker
NoStartMarkerSplit == \A i \in 1..Len(xcuts) : xcuts[i] # FrameStart(1)

\* C17: after a chunk that holds two or more complete frames, the latest
\* result is the last complete frame of that chunk.
C17_LatestIsLastFrameOfChunk ==
    (xcuts # <<>> /\ Cardinality(InLastChunk) >= 2) =>
        xlatest = <<Frame(Last(InLastChunk))>>

\* one chunk held two different frames, and the latest is the second
C17_Witness ==
    /\ Len(xcuts) = 1
    /\ InLastChunk = {1, 2}
    /\ Frame(1) # Frame(2)
    /\ xlatest = <<Frame(2)>>

\* the first chunk reaches past the first start marker and stops short of
\* the end of the first frame
FirstChunkPartial ==
    /\ xcuts # <<>>
    /\ xcuts[1] >= FrameStart(1) + 1
    /\ xcuts[1] < FrameEnd(1)

\* C18: after a first chunk that holds the start marker of the first frame
\* and not its end marker, no frame is available and the buffer holds the
\* bytes from the start marker on; once the next chunk has brought the end
\* marker, the latest result is a frame, and with only that frame complete
\* it is the span from the start marker through the end marker.
C18_PartialFrameWaits ==
    FirstChunkPartial =>
        /\ Len(xcuts) = 1 =>
              /\ xlatest = <<>>
              /\ xbuf = SubSeq(StreamBytes, FrameStart(1), Fed)
        /\ (Len(xcuts) = 2 /\ Fed >= FrameEnd(1)) =>
              /\ xlatest # <<>>
              /\ (Len(xstream.payloads) = 1 \/ Fed < FrameEnd(2)) =>
                    xlatest = <<Frame(1)>>

\* a frame cut inside its payload has been completed by the second chunk
C18_Witness ==
    /\ FirstChunkPartial
    /\ Len(xcuts) = 2
    /\ xstream.payloads = << <<170, 187>> >>
    /\ xcuts[1] = FrameStart(1) + 2
    /\ xlatest = <<Frame(1)>>
    /\ xbuf = <<>>

\* C19: once garbage + SOI + payload + EOI has been fed, in one chunk or in
\* chunks that do not cut the start marker in two, the latest frame is
\* exactly SOI + payload + EOI.
C19_GarbageBeforeFrameSkipped ==
    (/\ Len(xstream.payloads) = 1
     /\ Fed = Len(StreamBytes)
     /\ NoStartMarkerSplit) =>
        xlatest = <<Frame(1)>>

\* garbage ending in 0xFF and a frame were fed in one chunk
C19_Witness ==
    /\ xstream.garbage = <<255, 255>>
    /\ Len(xstream.payloads) = 1
    /\ Len(xcuts) = 1
    /\ Fed = Len(StreamBytes)
    /\ xlatest = <<Frame(1)>>

\* C19 with the chunk boundaries left free
C19_AnyChunking ==
    (Len(xstream.payloads) = 1 /\ Fed = Len(StreamBytes)) =>
        xlatest = <<Frame(1)>>

\* the payloads with a 0xFF that does not start the end marker
MarkerLike == {p \in XPayloads : \E i \in 1..Len(p) : p[i] = 255}

\* C20: a latest frame always ends with the end marker of a frame of the
\* stream, never at an earlier 0xFF byte pair; and a frame whose payload
\* holds 0xFF 0x00 or 0xFF 0xDA, fed whole, is extracted whole.
C20_MarkerLikeBytesDoNotEndFrame ==
    /\ xlatest # <<>> =>
          \E k \in 1..Len(xstream.payloads) :
              /\ FrameEnd(k) <= Fed
              /\ Len(xlatest[1]) <= FrameEnd(k)
              /\ xlatest[1] = SubSeq(StreamBytes, FrameEnd(k) - Len(xlatest[1]) + 1,
                                     FrameEnd(k))
    /\ \A k \in InLastChunk :
          (k = Last(InLastChunk) /\ xstream.payloads[k] \in MarkerLike) =>
              xlatest = <<Frame(k)>>

\* the frame with payload FF 00 FF DA 01 was extracted whole
C20_Witness ==
    /\ xstream.payloads = << <<255, 0, 255, 218, 1>> >>
    /\ Fed = Len(StreamBytes)
    /\ xlatest = <<make_jpeg(<<255, 0, 255, 218, 1>>)>>

\* the latest frame when the whole stream is fed as one chunk
OneChunkLatest == FeedChunk(<<>>, <<>>, StreamBytes).latest

\* C21: once the whole stream has been fed, the latest frame is the same for
\* every way of cutting the stream into chunks: it is the latest frame of
\* the stream fed as one chunk.
C21_ChunkBoundariesDoNotMatter ==
    Fed = Len(StreamBytes) => xlatest = OneChunkLatest

\* no chunk so far ends between the 0xFF and the 0xD8 of a start marker
NoCutInsideStartMarker ==
    \A i \in 1..Len(xcuts) :
        xcuts[i] < Len(StreamBytes) =>
            ~(StreamBytes[xcuts[i]] = 255 /\ StreamBytes[xcuts[i] + 1] = 216)

\* what the scan does guarantee: the chunking does not matter as long as no
\* chunk ends inside a start marker; an end marker cut in two is recognised
C21_BoundariesOutsideStartMarkers ==
    (Fed = Len(StreamBytes) /\ NoCutInsideStartMarker) => xlatest = OneChunkLatest

\* an end marker was cut in two and the frame was still extracted
C21_EndMarkerCutRecognised ==
    /\ Len(xstream.payloads) = 1
    /\ Len(xcuts) = 2
    /\ xcuts[1] = FrameEnd(1) - 1
    /\ xlatest = <<Frame(1)>>

---------------------------------------------------------------------------
(* GET /api/status: link_alive                                             *)

\* the one datagram counted so far is the one in hand, and it does not
\* decode as a frame: no frame has been received yet
OnlyInvalidReceived ==
    /\ packets_rx = 1
    /\ data # <<>>
    /\ parse_ibus_frame(data) = None

\* C22: an answered status query reports link_alive only when a frame has
\* been received and less than 1.0 s have passed since the last reception;
\* when nothing that decodes as a frame has been received it reports
\* link_alive false.
C22_LinkUpOnlyWithRecentFrame ==
    status # <<>> =>
        /\ status[1].link_alive =>
              /\ packets_rx > 0
              /\ ~OnlyInvalidReceived
              /\ clock - last_rc_time < LINK_ALIVE_MS
        /\ (packets_rx = 0 \/ OnlyInvalidReceived) => ~status[1].link_alive

\* what lines 692-695 compute: link_alive exactly when a non-empty datagram
\* has been counted and less than 1.0 s have passed since the last one
C22_LinkUpIffDatagramWithinSecond ==
    status # <<>> =>
        (status[1].link_alive <=>
            (packets_rx > 0 /\ clock - last_rc_time < LINK_ALIVE_MS))

\* link_alive was reported true, and false with a datagram older than 1.0 s
C22_ReportedUp == status # <<>> /\ status[1].link_alive

C22_ReportedDownAfterSecond ==
    status # <<>> /\ packets_rx > 0 /\ ~status[1].link_alive

---------------------------------------------------------------------------
(* bridge_loop: faults                                                     *)

\* the labels of the receive loop
LoopLabels == {"select", "forward", "rxlog", "uart", "live"}

HasEntry(src, msg) ==
    \E i \in 1..Len(logs) : logs[i].src = src /\ logs[i].msg = msg

\* the serial port could not be opened at startup
UartOpenFailed == HasEntry("PI", "UART error")

\* the bind failed
BindFailed == HasEntry("PI", "ERROR: UDP bind failed")

\* C23: after the serial port failed to open at startup the bridge is in its
\* loop, uart_open is false, packets_uart_tx and uart_rx_lines are zero and
\* nothing is written to the port, for ever; a non-empty datagram read after
\* the failure is still counted.
C23_BridgeRunsWithoutSerialPort ==
    /\ [](UartOpenFailed =>
             /\ b_pc \in LoopLabels
             /\ ~uart_open
             /\ packets_uart_tx = 0
             /\ uart_rx_lines = 0
             /\ uart_written = <<>>)
    /\ [][(UartOpenFailed /\ b_pc = "select" /\ data' # <<>>) =>
              packets_rx' = packets_rx + 1]_vars

\* without a serial port a datagram was counted and its loss was logged
C23_Witness ==
    /\ UartOpenFailed
    /\ packets_rx = 1
    /\ \E i \in 1..Len(logs) : IsSignalLost(logs[i])

\* C24: when the bind fails an error entry is appended and the bridge
\* returns: it is never in its loop, and from then on no counter changes,
\* nothing is written to the serial port, the port is not opened and no
\* liveness entry is logged.
C24_BindFailureEndsBridge ==
    /\ [](b_pc = "returned" => BindFailed)
    /\ [](BindFailed =>
             /\ b_pc = "returned"
             /\ Len(logs) = 1
             /\ packets_rx = 0 /\ packets_uart_tx = 0 /\ uart_rx_lines = 0
             /\ last_rc_time = 0 /\ last_rc_sender = ""
             /\ ~uart_open /\ ~uart_dev
             /\ uart_written = <<>>)
    /\ [][BindFailed =>
              /\ telemetryVars' = telemetryVars
              /\ bridgeVars' = bridgeVars]_vars

\* the bind has failed and a second has passed with nothing done
C24_Witness ==
    /\ BindFailed
    /\ b_pc = "returned"
    /\ clock >= BridgeStartClock + 1000

\* the label a pass goes to from each label of the loop
NextLabels(l) ==
    CASE l = "select"  -> {"forward", "uart"}
      [] l = "forward" -> {"rxlog"}
      [] l = "rxlog"   -> {"uart"}
      [] l = "uart"    -> {"live"}
      [] l = "live"    -> {"select"}
      [] OTHER         -> {}

\* the step in which recvfrom raised: it appends the receive-error entry
RecvRaised ==
    /\ b_pc = "select"
    /\ next_log_id' = next_log_id + 1
    /\ logs'[Len(logs')].msg = "UDP receive error"

\* the step in which the serial write raised
WriteRaised ==
    /\ b_pc = "forward"
    /\ n_event' = n_event + 1

\* the step in which the serial port was read, or the read raised
ReadDoneOrRaised ==
    /\ b_pc = "uart"
    /\ n_event' = n_event + 1

\* C25: an exception of the datagram receive, of the serial write or of the
\* serial read does not end the loop: the pass goes on to the serial read
\* after a receive error, to the progress entries and the serial read after
\* a write error and to the liveness test after a read error, and every pass
\* goes from label to label in the order of the loop.
C25_FaultsDoNotStopThePass ==
    /\ [][RecvRaised => b_pc' = "uart"]_vars
    /\ [][WriteRaised => b_pc' = "rxlog"]_vars
    /\ [][ReadDoneOrRaised => b_pc' = "live"]_vars
    /\ [][(b_pc \in LoopLabels) => (b_pc' \in ({b_pc} \cup NextLabels(b_pc)))]_vars

\* after a receive error a later pass received a frame and wrote it
C25_Witness ==
    /\ HasEntry("PI", "UDP receive error")
    /\ b_pc = "rxlog"
    /\ uart_written = <<data>>
    /\ packets_uart_tx = 1

\* a pass whose serial write raised has gone on to the liveness test
C25_WitnessAfterWriteFault ==
    /\ b_pc = "live"
    /\ data \in {GoodFrame, OtherGoodFrame}
    /\ uart_dev
    /\ uart_written = <<>>

\* C26: a serial write that raises causes a log entry to be appended.
C26_WriteFailureLogged ==
    [][WriteRaised => next_log_id' > next_log_id]_vars

\* what lines 645-646 do for the receive error: the entry is tagged "PI"
C26_ReceiveErrorLogged ==
    [][RecvRaised => logs'[Len(logs')].src = "PI"]_vars

\* a pass whose write raised is at the progress entries with no entry added
\* since the two startup entries
C26_SilentWriteFailure ==
    /\ b_pc = "rxlog"
    /\ data \in {GoodFrame, OtherGoodFrame}
    /\ uart_dev
    /\ uart_written = <<>>
    /\ Len(logs) = 2

---------------------------------------------------------------------------
(* Shutdown                                                                *)

\* the threads that run a `while True:` loop
LoopThreads == {"bridge", "monitor", "arbiter"}

\* C27: once shutdown has begun, a loop that stands at the top of its body
\* does not begin another iteration.
C27_LoopsStopAfterShutdown ==
    [][shutdown =>
          \A t \in LoopThreads : t_pc[t] = "top" => t_pc'[t] = "top"]_vars

---------------------------------------------------------------------------
(* Servo outputs                                                           *)

\* the duty cycle the claim gives for an angle, in 1/36 percent
ClaimedDuty(angle) ==
    IF angle < 0 THEN DUTY_MIN
    ELSE IF angle > 180 THEN DUTY_MAX
    ELSE DUTY_MIN + 2 * angle

\* C28: with the PWM outputs present, both duty cycles are always within
\* [2.5, 12.5]; a request for servo 1 or 2 sets that output to 2.5 + angle/18
\* for an angle in [0, 180], to 2.5 below 0 and to 12.5 above 180, and leaves
\* the other output alone; a request for any other id changes no output.
C28_ServoDutyClamped ==
    /\ [](gpio_available =>
             /\ duty1 \in DUTY_MIN..DUTY_MAX
             /\ duty2 \in DUTY_MIN..DUTY_MAX)
    /\ [][(gpio_available /\ servo_req' # <<>>) =>
             LET r == servo_req'[1]
             IN  /\ r.id = 1 => (duty1' = ClaimedDuty(r.angle) /\ duty2' = duty2)
                 /\ r.id = 2 => (duty2' = ClaimedDuty(r.angle) /\ duty1' = duty1)
                 /\ r.id \notin {1, 2} => (duty1' = duty1 /\ duty2' = duty2)]_vars

\* servo 1 was asked for 270 degrees and stands at 12.5, servo 2 for -90 and
\* stands at 2.5
C28_Witness ==
    /\ gpio_available
    /\ servo_req = << [id |-> 1, angle |-> 270] >>
    /\ duty1 = DUTY_MAX
    /\ duty2 = DUTY_MIN

\* a request for servo 3 was answered, with servo 1 left at 45 degrees
C28_WitnessOtherId ==
    /\ gpio_available
    /\ servo_req = << [id |-> 3, angle |-> 180] >>
    /\ duty1 = DUTY_MIN + 90
    /\ duty2 = DUTY_NEUTRAL

---------------------------------------------------------------------------
(* SharedState: who writes which field                                     *)

\* a step of the bridge loop, of the arbiter's update loop
BridgeStep == t_pc'["bridge"] # t_pc["bridge"] \/ b_pc' # b_pc

ArbiterStep == t_pc'["arbiter"] # t_pc["arbiter"] \/ a_pc' # a_pc

\* a step in which a status query, a log query, is answered
StatusAnswered == status' # <<>> /\ status' # status

LogsAnswered == qres' # <<>> /\ qres' # qres

\* C29: packets_rx, packets_uart_tx, uart_rx_lines, last_rc_time,
\* last_rc_sender and uart_open change only in steps of the bridge loop,
\* relay_state only in steps of the arbiter's update loop, momentary_active
\* only in set_momentary and blink_active only in set_blink; a step that
\* answers a status query or a log query changes none of these fields and
\* not the log.
C29_SingleWriterPerField ==
    /\ [][<<packets_rx, packets_uart_tx, uart_rx_lines, last_rc_time,
            last_rc_sender, uart_open>>'
             # <<packets_rx, packets_uart_tx, uart_rx_lines, last_rc_time,
                 last_rc_sender, uart_open>> => BridgeStep]_vars
    /\ [][relay_state' # relay_state => ArbiterStep]_vars
    /\ [][momentary_active' # momentary_active => gpio_momentary]_vars
    /\ [][blink_active' # blink_active => gpio_blink]_vars
    /\ [][(StatusAnswered \/ LogsAnswered) =>
             /\ telemetryVars' = telemetryVars
             /\ relayVars' = relayVars]_vars

\* every writer has written its field and both queries have been answered
C29_Witness ==
    /\ packets_rx = 1
    /\ packets_uart_tx = 1
    /\ last_rc_sender # ""
    /\ relay_state
    /\ momentary_active
    /\ blink_active
    /\ status # <<>>
    /\ qres # <<>>

---------------------------------------------------------------------------
(* bridge_loop: a second loss of the signal                                *)

\* a "signal lost" entry of an earlier loss: appended before the last
\* datagram was received
EarlierLossLogged ==
    \E i \in 1..Len(logs) :
        IsSignalLost(logs[i]) /\ logs[i].at <= last_rx_time

\* the loss that is running has an entry of its own
ThisLossLogged ==
    \E i \in 1..Len(logs) :
        IsSignalLost(logs[i]) /\ logs[i].at > last_rx_time

\* C30: when a loss was logged, a datagram was then received and the signal
\* is lost again, the liveness test that finds the age above 500 ms appends
\* a "signal lost" entry for this second loss, whatever was logged in the
\* current 5-second window before.
C30_SecondLossLogged ==
    [][(/\ LivenessStep
        /\ last_rx_time # 0
        /\ clock - last_rx_time > FAILSAFE_MS
        /\ EarlierLossLogged
        /\ ~ThisLossLogged)
           => \E e \in Appended(next_log_id, logs') : IsSignalLost(e)]_vars

\* what lines 671-678 do for a second loss: its entry is appended when the
\* liveness test falls in a later 5-second window than every liveness entry
C30_SecondLossLoggedInNextWindow ==
    [][(/\ LivenessStep
        /\ last_rx_time # 0
        /\ clock - last_rx_time > FAILSAFE_MS
        /\ EarlierLossLogged
        /\ ~ThisLossLogged
        /\ \A i \in 1..Len(logs) :
               (IsWaiting(logs[i]) \/ IsSignalLost(logs[i]))
                   => Window(logs[i].at) < Window(clock))
           => \E e \in Appended(next_log_id, logs') : IsSignalLost(e)]_vars

\* two losses, each with its own entry, in two windows
C30_TwoLossesLogged ==
    /\ EarlierLossLogged
    /\ ThisLossLogged

\* a second loss older than 500 ms with no entry of its own, the pass over
C30_SecondLossSilent ==
    /\ b_pc = "select"
    /\ last_rx_time # 0
    /\ clock - last_rx_time > FAILSAFE_MS
    /\ EarlierLossLogged
    /\ ~ThisLossLogged
    /\ data = <<>>

---------------------------------------------------------------------------
(* bridge_loop: the lines of the inbound serial stream                     *)

\* the part of the stream read so far
FedPrefix == SubSeq(sstream, 1, sfed)

\* the offsets of the '\n' bytes read so far
Newlines == {i \in 1..sfed : sstream[i] = 10}

\* the offset after the last '\n' before offset i
LineStart(i) ==
    LET before == {j \in Newlines : j < i}
    IN  IF before = {} THEN 1
        ELSE 1 + CHOOSE j \in before : \A k \in before : k <= j

NotCR(b) == b # 13

\* the bytes between the '\n' at offset i and the one before it, every '\r'
\* removed
RawLine(i) == SelectSeq(SubSeq(sstream, LineStart(i), i - 1), NotCR)

\* the bytes read after the last '\n', every '\r' removed
RawTail == SelectSeq(SubSeq(sstream, LineStart(sfed + 1), sfed), NotCR)

\* the text the code logs for a line: decoded, surrounding whitespace removed
TextOf(line) == Strip(DecodeAscii(line))

IsEsp32(e) == e.src = "ESP32"

\* the entries tagged as coming from the controller, in log order
Esp32Entries == SelectSeq(logs, IsEsp32)

\* no 257 consecutive bytes of the stream are without a '\n'
LinesWithinLimit ==
    \A i \in 1..(Len(sstream) - UART_LINE_MAX) :
        \E j \in i..(i + UART_LINE_MAX) : sstream[j] = 10

\* C31: for a stream whose lines are at most 256 bytes long, whatever the
\* reads, the controller entries are exactly the non-empty lines read so far
\* (the bytes between consecutive '\n', every '\r' removed), one entry per
\* line in arrival order; the unterminated tail is in the buffer; and
\* uart_rx_lines is the number of these entries.
C31_EntriesAreTheRawLines ==
    LinesWithinLimit =>
        LET ends == {i \in Newlines : RawLine(i) # <<>>}
        IN  /\ Len(Esp32Entries) = Cardinality(ends)
            /\ \A i \in ends :
                  Esp32Entries[Cardinality({j \in ends : j <= i})].line = RawLine(i)
            /\ uart_rx_lines = Len(Esp32Entries)
            /\ uart_line_buf = RawTail

\* C31, amended: the same with each line decoded as ASCII (a byte above 127
\* replaced by U+FFFD) and stripped of surrounding whitespace, and with the
\* lines that are empty after that left out.
C31_EntriesAreTheStrippedLines ==
    LinesWithinLimit =>
        LET ends == {i \in Newlines : TextOf(RawLine(i)) # <<>>}
        IN  /\ Len(Esp32Entries) = Cardinality(ends)
            /\ \A i \in ends :
                  Esp32Entries[Cardinality({j \in ends : j <= i})].line
                      = TextOf(RawLine(i))
            /\ uart_rx_lines = Len(Esp32Entries)
            /\ uart_line_buf = RawTail

\* " ok \n" and "o\rk\n" were read whole: two entries, both "ok"
C31_Witness ==
    /\ sstream = <<32, 111, 107, 32, 10, 111, 13, 107, 10>>
    /\ sfed = Len(sstream)
    /\ uart_rx_lines = 2
    /\ Esp32Entries[1].line = <<111, 107>>
    /\ Esp32Entries[2].line = <<111, 107>>

\* an unterminated "a" was carried over and completed by "ok\n"
C31_WitnessCarriedOver ==
    /\ sstream = <<97, 111, 107, 10>>
    /\ sfed = Len(sstream)
    /\ Len(Esp32Entries) = 1
    /\ Esp32Entries[1].line = <<97, 111, 107>>

\* the bytes other than '\r' read since the last '\n'
TailCount == Len(RawTail)

\* C32: after every read the line buffer holds at most 256 bytes: it holds
\* the bytes read since the last '\n' without the '\r', counted from the
\* last time their number reached 257 and the buffer was cleared.
C32_LineBufferBounded ==
    /\ Len(uart_line_buf) <= UART_LINE_MAX
    /\ Len(uart_line_buf) = TailCount % (UART_LINE_MAX + 1)

\* the 257th byte without a terminator has been read and the buffer is empty
C32_Witness ==
    /\ TailCount = UART_LINE_MAX + 1
    /\ uart_line_buf = <<>>
    /\ uart_rx_lines = 0

\* one more byte after the overflow: the buffer starts again
C32_WitnessAfterOverflow ==
    /\ TailCount = UART_LINE_MAX + 2
    /\ Len(uart_line_buf) = 1

---------------------------------------------------------------------------
(* read_ibus_frame: what it returns, and the caller's next call            *)

\* a call of read_ibus_frame returns in this step
ReadReturns == rpc # "done" /\ rpc' = "done"

\* the serial read of this step got fewer bytes than it asked for
ShortRead == Len(rin) - Len(rin') < (IF rpc = "rest" THEN 30 ELSE 1)

NoneOrHeadedFrame ==
    \/ rret = None
    \/ Len(rret) = 32 /\ rret[1] = 32 /\ rret[2] = 64

\* C33: read_ibus_frame returns None or exactly 32 bytes that begin with
\* 0x20 0x40; a serial read that times out or comes back short makes it
\* return None; and after None the caller calls it again on the same open
\* port, scanning from the first header byte, with no byte lost.
C33_NoneOrFrameThenRescan ==
    /\ [](rpc = "done" => NoneOrHeadedFrame)
    /\ [][(ReadReturns /\ ShortRead) => rret' = None]_vars
    /\ [][(rpc = "done" /\ rret = None /\ rpc' # "done")
            => (rpc' = "first" /\ rin' = rin /\ snd_opens' = snd_opens)]_vars

\* a call returned None, the caller called again, and that call returned
\* a frame read from the same port
C33_Witness ==
    /\ snd_last = "noframe"
    /\ snd_opens = 1
    /\ rpc = "done"
    /\ rret # None
    /\ Len(rret) = 32

---------------------------------------------------------------------------
(* bridge_loop: the serial device after a failed write                     *)

\* C34: after a serial write that raised, the device counts as closed:
\* uart_open, which the status reports, is false.
C34_WriteFailureClosesDevice ==
    [][WriteRaised => uart_open' = FALSE]_vars

\* the loop runs on after the failure: the next pass is reached
C34_LoopRunsOnAfterWriteFailure ==
    [][WriteRaised => b_pc' = "rxlog"]_vars

\* a status answered after a write raised, reporting the device open
C34_ReportedOpenAfterFailure ==
    /\ status # <<>>
    /\ status[1].uart_open
    /\ b_pc = "live"
    /\ data \in {GoodFrame, OtherGoodFrame}
    /\ uart_written = <<>>

---------------------------------------------------------------------------
(* bridge_loop: the counters                                               *)

\* C35: packets_uart_tx never exceeds packets_rx; packets_rx,
\* packets_uart_tx and uart_rx_lines never decrease; and packets_uart_tx
\* changes only by one, in a step in which the serial write of the datagram
\* returned.
C35_CountersOrderedAndMonotonic ==
    /\ [](packets_uart_tx <= packets_rx)
    /\ [][/\ packets_rx' >= packets_rx
          /\ packets_uart_tx' >= packets_uart_tx
          /\ uart_rx_lines' >= uart_rx_lines]_vars
    /\ [][(packets_uart_tx' # packets_uart_tx)
            => (/\ packets_uart_tx' = packets_uart_tx + 1
                /\ uart_written' = Append(uart_written, data))]_vars

\* one datagram was written to the serial port and counted, another one
\* was received and not written
C35_Witness ==
    /\ packets_uart_tx = 1
    /\ packets_rx = 2
    /\ b_pc = "rxlog"
    /\ uart_written = <<>>

---------------------------------------------------------------------------
(* The two decoders                                                        *)

\* C36: for every byte string, parse_ibus_frame of pc_rc_sender.py returns
\* what parse_ibus_frame of pi_rover_system.py returned for it: both None,
\* or the same 14 channel values.
C36_DecodersAgree ==
    cstage = "decoded" => sender_parse_ibus_frame(cbuf) = cres

\* both decoders accepted an input and returned its channels
C36_Witness ==
    /\ cstage = "decoded"
    /\ cres # None
    /\ sender_parse_ibus_frame(cbuf) = cframe

\* both decoders rejected a 32-byte input
C36_WitnessRejected ==
    /\ cstage = "decoded"
    /\ Len(cbuf) = 32
    /\ cres = None
    /\ sender_parse_ibus_frame(cbuf) = None

---------------------------------------------------------------------------
(* SharedState.lock: no thread waits for itself                            *)

\* where each thread stands when its next statement is `with state.lock:`,
\* a call of add_log or a call of get_logs_since
AcquirePoints ==
    [t \in Threads |->
        CASE t = "bridge"  -> {"rx_lock", "tx_lock", "log_lock"}
          [] t = "monitor" -> {"warn_lock", "log_lock"}
          [] t = "status"  -> {"top"}
          [] t = "logs"    -> {"top"}
          [] t = "arbiter" -> {"top", "publish_lock"}]

---------------------------------------------------------------------------
(* The log console: what a polling page is handed                          *)

\* what the page was handed by the response it processed last
Handed == poll_last[1]

\* every id handed over is new and larger than all ids handed over before,
\* and the ids of one response increase
NothingHandedTwice ==
    /\ \A i \in 1..Len(Handed.ids) : Handed.ids[i] > Handed.seen_before
    /\ \A i \in 1..(Len(Handed.ids) - 1) : Handed.ids[i] < Handed.ids[i + 1]

\* an entry between the ones handed over before and the ones handed over
\* now was never handed over
EntryMissed ==
    /\ Handed.ids # <<>>
    /\ Handed.ids[1] > Handed.seen_before + 1

\* entries appended between the answer processed before and this one
AppendedBetweenPolls == Handed.next - Handed.prev_next

\* C38: the page, which sends the largest id it has been handed as the
\* cursor of each request, is never handed an entry twice, is handed ids
\* that increase from response to response, and misses an entry only if
\* more than 1000 entries were appended between two consecutive polls.
C38_NothingTwiceAndLossOnlyPastThousand ==
    poll_last # <<>> =>
        /\ NothingHandedTwice
        /\ EntryMissed => AppendedBetweenPolls > LOG_MAXLEN

\* the same for the responses to requests that were under way alone and
\* whose cursor was the largest id handed over when they were sent
C38_HoldsForOneRequestAtATime ==
    (poll_last # <<>> /\ Handed.alone /\ Handed.cursor = Handed.seen_at_send) =>
        /\ NothingHandedTwice
        /\ EntryMissed => AppendedBetweenPolls > LOG_MAXLEN

\* a request under way alone missed entries after 1001 appends
C38_WitnessLoss ==
    /\ poll_last # <<>>
    /\ Handed.alone
    /\ Handed.cursor = Handed.seen_at_send
    /\ Handed.cursor > 0
    /\ EntryMissed

\* two requests were sent with the same cursor, and the second response
\* hands over entries the first one handed over
C38_HandedTwice ==
    /\ poll_last # <<>>
    /\ Handed.cursor = Handed.seen_at_send
    /\ Handed.ids # <<>>
    /\ Handed.ids[1] <= Handed.seen_before

---------------------------------------------------------------------------
(* pc_rc_sender.main: what is sent, and how often                          *)

\* a datagram is sent in this step
Sends == snd_sent' # snd_sent

\* a pass ends in this step
PassEnds == rpc = "done" /\ rpc' = "first"

\* the time between each send and the one before it is at least gap
SendsApart(gap) ==
    \A i \in 2..Len(snd_sent) : snd_sent[i].at - snd_sent[i - 1].at >= gap

\* a send transmits the frame read_ibus_frame has just returned, which is
\* 32 bytes that parse_ibus_frame accepts, and a valid frame that comes
\* before next_send is followed by no send
SendsWhatWasReadOrDrops ==
    /\ [][Sends => /\ PassEnds
                   /\ Len(rret) = 32
                   /\ sender_parse_ibus_frame(rret) # None
                   /\ snd_sent' = Append(snd_sent, [data |-> rret, at |-> clock,
                                                    read |-> snd_reads'])]_vars
    /\ [][(PassEnds /\ clock < snd_next_send) => ~Sends]_vars

C39_WitnessTwoSends ==
    /\ snd_hz = 50000
    /\ Len(snd_sent) = 2
    /\ snd_last = "sent"

\* at half a hertz two frames were sent one second apart
C39_WitnessBelowOneHertz ==
    /\ snd_hz = 500
    /\ Len(snd_sent) = 2
    /\ snd_sent[2].at - snd_sent[1].at = 1000

---------------------------------------------------------------------------
(* The momentary request, from set_momentary to the published level        *)

\* the label a tick goes to from each label
NextTickLabel(l) ==
    CASE l = "top" -> "sample"
      [] l = "sample" -> "resolve"
      [] l = "resolve" -> "publish"
      [] l = "publish" -> "sleep"
      [] l = "sleep" -> "top"

\* C40: once set_momentary(True) has returned, the request stays set until
\* set_momentary(False); a tick that samples while it is set resolves high,
\* writes high to the pin when there is one and publishes relay_state high;
\* and every tick goes through the write and the publication of the level
\* it resolved, changed or not.
C40_MomentaryPublishedHighEveryTick ==
    /\ [][(momentary_active /\ ~momentary_active') => a_pc' = a_pc]_vars
    /\ [][(a_pc = "sample" /\ a_pc' # a_pc /\ momentary_active) => momentary']_vars
    /\ [][(a_pc = "resolve" /\ a_pc' # a_pc /\ momentary)
            => (target_high' /\ (gpio_available => pin'))]_vars
    /\ [][(a_pc = "publish" /\ a_pc' # a_pc)
            => (relay_state' = target_high /\ (momentary => relay_state'))]_vars
    /\ [][(a_pc' # a_pc) => a_pc' = NextTickLabel(a_pc)]_vars

\* the request was set while the published level was low with no blink
\* request, and the tick that sampled it next has published high
C40_Witness ==
    /\ a_pc = "sleep"
    /\ momentary_active
    /\ momentary
    /\ ~blink_active /\ ~blinking
    /\ relay_state
    /\ gpio_available /\ pin

===========================================================================
